---- MODULE Spec2Model ----
(***************************************************************************)
(* Operating-room allocation and case lifecycle of the surgery manager:    *)
(* the SQLite knowledge base (surgery_cases, surgery_tasks), the planner   *)
(* that creates a case with its timed subtasks, the executor that assigns  *)
(* one room to a whole case, and the status refresh done on every read.    *)
(*                                                                         *)
(* Time is counted in minutes.  A datetime is a pair <<wall, aware>>: the  *)
(* wall-clock reading and whether the value carries a UTC offset; None is  *)
(* the empty tuple.  The TEXT column that stores a datetime is the pair    *)
(* <<wall, suffix>>, where suffix is 0 for the empty suffix of a naive     *)
(* isoformat() and 1 for "+00:00", and SQL NULL is the empty tuple.  SQL   *)
(* compares such columns as text, Python compares datetimes.               *)
(* An enum member is written by its name (priority) or directly by its     *)
(* value (the two status enums); the priority column stores the value.     *)
(***************************************************************************)
EXTENDS Integers, Sequences, FiniteSets, TLC

\* ------------------------------------------------------------------ bounds
MaxCases == 2
MaxTicks == 2
MaxReq == 2
MaxKbTasks == 2
MaxRoomCases == 6
Step == 60
ClockStep == 120
MaxWall == 1000
UtcAhead == 360
MaxNotes == 2
MaxBusyNotes == 1
MaxStoreNotes == 1
MaxBusNotes == 1
MaxHours == 4

\* ------------------------------------------------------- program constants
PRE_MINUTES == 60
SURG_MINUTES == 120
POST_MINUTES == 60
DEFAULT_DURATION == 60
NOTIFICATION_LIMIT == 50

NULL == "NULL"

Rooms == <<"OR-1", "OR-2", "OR-3", "OR-4", "OR-5">>

CaseNames == <<"CASE-1", "CASE-2", "CASE-3", "CASE-4", "CASE-5", "CASE-6", "CASE-7", "CASE-8">>
CaseIds == {CaseNames[i] : i \in 1..MaxCases}
RoomCaseIds == {CaseNames[i] : i \in 1..MaxRoomCases}
ReqTimes == {k * Step : k \in 1..MaxReq}
Clock == {k * ClockStep : k \in 0..MaxTicks}

\* The members of SurgeryPriority and, in the same order, their values.
PriorityNames == <<"EMERGENCY", "URGENT", "ELECTIVE">>
PriorityValues == <<"emergency", "urgent", "elective">>
PriorityValue(member) == PriorityValues[CHOOSE i \in 1..Len(PriorityNames) : PriorityNames[i] = member]
SurgeryPriority(value) == PriorityNames[CHOOSE i \in 1..Len(PriorityValues) : PriorityValues[i] = value]

TaskStatus == {"pending", "scheduled", "in_progress", "done", "failed", "cancelled"}
SurgeryStatus == {"new", "planned", "in_progress", "completed", "cancelled"}

\* Task-id suffixes in the order in which SQLite's text comparison ranks the
\* ids "{case_id}-{suffix}" of one case.
SuffixOrder == <<"POST", "PRE", "SURG", "T1", "T2", "X1", "X2", "X3">>

SuffixRank(s) == CHOOSE i \in 1..Len(SuffixOrder) : SuffixOrder[i] = s

\* f"T{index}" for the index-th proposal of an external plan.
TSuffix == <<"T1", "T2">>

generate_task_id(case_id, index_or_suffix) == <<case_id, index_or_suffix>>

\* ---------------------------------------------------------------- datetimes
None == <<>>
Dt(w, a) == <<w, a>>
Wall(dt) == dt[1]
Aware(dt) == dt[2]

\* datetime + timedelta(minutes=m): the offset information is kept.
PlusMinutes(dt, m) == Dt(Wall(dt) + m, Aware(dt))

dt_to_str(dt) == IF dt = None THEN None ELSE <<Wall(dt), IF Aware(dt) THEN 1 ELSE 0>>

\* Variant: the UTC offset of the text is dropped.
str_to_dt_Naive(value) == IF value = None THEN None ELSE Dt(value[1], FALSE)

str_to_dt(value) == IF value = None THEN None ELSE Dt(value[1], value[2] = 1)

\* Text order of two stored isoformat strings.
TextLt(a, b) == a[1] < b[1] \/ (a[1] = b[1] /\ a[2] < b[2])

\* Python refuses to order a naive and an aware datetime (TypeError).
DtRaises(a, b) == Aware(a) # Aware(b)
DtLt(a, b) == Wall(a) < Wall(b)
DtLe(a, b) == Wall(a) <= Wall(b)

\* Results of the external suggestion: the list of usable proposals
\* [offset_start_minutes, duration_minutes].  suggest_tasks_for_surgery raises
\* GeminiNotAvailable instead of returning an empty list, and for every other
\* failure it catches; the empty list stands for all of these.
Prop(o, d) == [name |-> "Tarea", offset_start_minutes |-> o, duration_minutes |-> d]

GeminiPlans ==
    { <<Prop(0, Step)>>,
      <<Prop(0 - Step, Step), Prop(Step, Step)>>,
      <<Prop(0, 2 * Step), Prop(Step, Step)>>,
      <<Prop(Step, 0 - Step)>> }

GeminiNotAvailable == <<>>

\* What the call of the external model comes to: no API key, an error of the
\* call, a text that is no JSON, a JSON without a list "tasks", or a JSON with
\* the list "tasks" of the given entries.
Reply(kind, tasks) == [kind |-> kind, tasks |-> tasks]

\* An entry of "tasks": a JSON object with the three keys; an object with a
\* name only; an object whose numbers int() refuses; something that is no
\* object.
Entry(name, o, d) ==
    [shape |-> "object", name |-> name, offset_start_minutes |-> o, duration_minutes |-> d]
NameOnly == [shape |-> "name_only", name |-> "Tarea"]
BadNumber(name) == [shape |-> "bad_number", name |-> name]
NotAnObject == [shape |-> "not_an_object"]

\* An offset that takes every requested time out of the datetime range.
FarOffset == 2 * MaxWall + Step

Replies ==
    { Reply("no_api_key", <<>>), Reply("call_error", <<>>), Reply("not_json", <<>>),
      Reply("no_tasks_list", <<>>), Reply("tasks", <<>>),
      Reply("tasks", <<NotAnObject>>),
      Reply("tasks", <<Entry("", 0, Step)>>),
      Reply("tasks", <<BadNumber("Tarea")>>),
      Reply("tasks", <<Entry("Tarea", 0, Step), BadNumber("Tarea")>>),
      Reply("tasks", <<BadNumber(""), Entry("Tarea", 0, Step)>>),
      Reply("tasks", <<NameOnly>>),
      Reply("tasks", <<Entry("Tarea", 0 - Step, Step), Entry("Tarea", Step, Step)>>),
      Reply("tasks", <<Entry("Tarea", Step, 0 - Step)>>),
      Reply("tasks", <<Entry("Tarea", 0, 0)>>),
      Reply("tasks", <<Entry("Tarea", FarOffset, Step)>>) }

\* The entries with a name, in their order.
RECURSIVE Named(_)
Named(entries) ==
    IF entries = <<>> THEN <<>>
    ELSE IF entries[1].shape # "not_an_object" /\ entries[1].name = ""
         THEN Named(Tail(entries))
         ELSE <<entries[1]>> \o Named(Tail(entries))

\* suggest_tasks_for_surgery: the proposals of the entries that have a name,
\* missing numbers replaced by 0 and DEFAULT_DURATION; GeminiNotAvailable for
\* every failure and for an empty result.
suggest_tasks_for_surgery(reply) ==
    IF reply.kind # "tasks" THEN GeminiNotAvailable
    ELSE
    LET named == Named(reply.tasks)
    IN IF \E i \in 1..Len(named) : named[i].shape \in {"not_an_object", "bad_number"}
       THEN GeminiNotAvailable
       ELSE [i \in 1..Len(named) |->
               IF named[i].shape = "name_only"
               THEN [name |-> named[i].name, offset_start_minutes |-> 0,
                     duration_minutes |-> DEFAULT_DURATION]
               ELSE [name |-> named[i].name,
                     offset_start_minutes |-> named[i].offset_start_minutes,
                     duration_minutes |-> named[i].duration_minutes]]

\* ------------------------------------------------------------------- state
\* db: the SQLite database as KnowledgeBase._conn sees it: the tables
\*     surgery_cases (primary key id -> row) and surgery_tasks (rows).  While
\*     a failed add_case has left its transaction open, the field committed
\*     holds the tables as the file has them.
\* clock: the server's local wall clock, what _now() reads.
\* last: the most recent call: operation, argument, returned value, logged
\*     outcome.
\* pending: the SCHEDULE_CASE requests the server has accepted and whose
\*     handler has not started (waiting), the handlers under way with the
\*     case they loaded and the room they found (running), and the requests
\*     of the same burst already answered (done).
\* notifier: Notifier._notifications, the list the notifier keeps in memory.
\* notifications: the rows of the SQLite table notifications, by ascending id.
\* twin: the database of a second run that receives the same requests with
\*     other priorities.
VARIABLES db, clock, last, pending, notifier, notifications, twin

vars == <<db, clock, last, pending, notifier, notifications, twin>>

\* _now(), datetime.now(): the local reading of the wall clock.
now == Dt(clock, FALSE)

\* datetime.utcnow(): the naive reading of the same instant in UTC, on a
\* server whose local time is `ahead` minutes behind UTC.
utcnow(ahead) == Dt(clock + ahead, FALSE)

\* The server's zone: UTC itself, or UtcAhead minutes behind it.
UtcZone == {0}
Zones == {0, UtcAhead}

Min(S) == CHOOSE x \in S : \A y \in S : x <= y
Max(S) == CHOOSE x \in S : \A y \in S : x >= y

\* --------------------------------------------------------------- task plan
\* datetime arithmetic raises OverflowError when the result leaves the range
\* datetime.min .. datetime.max, here -MaxWall .. MaxWall.
OutOfRange(w) == w < 0 - MaxWall \/ w > MaxWall

\* Some start or end computed from the proposals is out of range.
PlanOverflows(requested, proposed) ==
    \E index \in 1..Len(proposed) :
        \/ OutOfRange(Wall(requested) + proposed[index].offset_start_minutes)
        \/ OutOfRange(Wall(requested) + proposed[index].offset_start_minutes
                         + proposed[index].duration_minutes)

build_tasks_with_gemini(case_id, requested, proposed) ==
    [index \in 1..Len(proposed) |->
        LET start == PlusMinutes(requested, proposed[index].offset_start_minutes)
            end == PlusMinutes(start, proposed[index].duration_minutes)
        IN [id |-> generate_task_id(case_id, TSuffix[index]),
            case_id |-> case_id,
            name |-> proposed[index].name,
            status |-> "scheduled",
            or_room_id |-> NULL,
            scheduled_start |-> start,
            scheduled_end |-> end]]

\* Variant: the preoperative phase starts two hours before the requested time.
build_tasks_deterministic_LongPre(case_id, requested) ==
    LET Task(sfx, name, s, e) == [id |-> generate_task_id(case_id, sfx),
                                  case_id |-> case_id,
                                  name |-> name,
                                  status |-> "scheduled",
                                  or_room_id |-> NULL,
                                  scheduled_start |-> s,
                                  scheduled_end |-> e]
    IN << Task("PRE", "Preoperatorio", PlusMinutes(requested, 0 - SURG_MINUTES), requested),
          Task("SURG", "Cirugia principal", requested, PlusMinutes(requested, SURG_MINUTES)),
          Task("POST", "Postoperatorio", PlusMinutes(requested, SURG_MINUTES),
               PlusMinutes(requested, SURG_MINUTES + POST_MINUTES)) >>

build_tasks_deterministic(case_id, requested) ==
    LET pre_start == PlusMinutes(requested, 0 - PRE_MINUTES)
        pre_end == requested
        surg_start == requested
        surg_end == PlusMinutes(requested, SURG_MINUTES)
        post_start == surg_end
        post_end == PlusMinutes(surg_end, POST_MINUTES)
        Task(sfx, name, s, e) == [id |-> generate_task_id(case_id, sfx),
                                  case_id |-> case_id,
                                  name |-> name,
                                  status |-> "scheduled",
                                  or_room_id |-> NULL,
                                  scheduled_start |-> s,
                                  scheduled_end |-> e]
    IN << Task("PRE", "Preoperatorio", pre_start, pre_end),
          Task("SURG", "Cirugia principal", surg_start, surg_end),
          Task("POST", "Postoperatorio", post_start, post_end) >>

\* Variant: no plan at all when the suggestion is not available.
build_tasks_for_case_NoFallback(case_id, requested, gemini) ==
    IF gemini = GeminiNotAvailable
    THEN <<>>
    ELSE build_tasks_with_gemini(case_id, requested, gemini)

build_tasks_for_case(case_id, requested, gemini) ==
    IF gemini = GeminiNotAvailable
    THEN build_tasks_deterministic(case_id, requested)
    ELSE build_tasks_with_gemini(case_id, requested, gemini)

\* ------------------------------------------------------------------- store
TaskRow(task) ==
    [id |-> task.id,
     case_id |-> task.case_id,
     name |-> task.name,
     status |-> task.status,
     or_room_id |-> task.or_room_id,
     scheduled_start |-> dt_to_str(task.scheduled_start),
     scheduled_end |-> dt_to_str(task.scheduled_end)]

CaseRow(case) ==
    [patient_name |-> case.patient_name,
     procedure_name |-> case.procedure_name,
     priority |-> PriorityValue(case.priority),
     requested_datetime |-> dt_to_str(case.requested_datetime),
     status |-> case.status,
     created_at |-> dt_to_str(case.created_at),
     updated_at |-> dt_to_str(case.updated_at)]

\* Variant: the DELETE lacks its WHERE clause.
add_case_DeleteAll(d, case) ==
    [surgery_cases |-> [i \in (DOMAIN d.surgery_cases) \cup {case.id} |->
                           IF i = case.id THEN CaseRow(case) ELSE d.surgery_cases[i]],
     surgery_tasks |-> {TaskRow(case.tasks[i]) : i \in 1..Len(case.tasks)}]

\* INSERT OR REPLACE of the case row, DELETE of the case's task rows, INSERT
\* of the given tasks, commit.
add_case(d, case) ==
    [surgery_cases |-> [i \in (DOMAIN d.surgery_cases) \cup {case.id} |->
                           IF i = case.id THEN CaseRow(case) ELSE d.surgery_cases[i]],
     surgery_tasks |-> {t \in d.surgery_tasks : t.case_id # case.id}
                          \cup {TaskRow(case.tasks[i]) : i \in 1..Len(case.tasks)}]

\* Variant: only the case row is deleted.
delete_case_RowOnly(d, case_id) ==
    [surgery_cases |-> [i \in (DOMAIN d.surgery_cases) \ {case_id} |-> d.surgery_cases[i]],
     surgery_tasks |-> d.surgery_tasks]

delete_case(d, case_id) ==
    [surgery_cases |-> [i \in (DOMAIN d.surgery_cases) \ {case_id} |-> d.surgery_cases[i]],
     surgery_tasks |-> {t \in d.surgery_tasks : t.case_id # case_id}]

\* Variant: ORDER BY id ASC alone.
RowBefore_IdOnly(a, b) == SuffixRank(a.id[2]) < SuffixRank(b.id[2])

\* ORDER BY scheduled_start ASC, id ASC (NULL sorts first in SQLite).
RowBefore(a, b) ==
    IF a.scheduled_start = b.scheduled_start
    THEN SuffixRank(a.id[2]) < SuffixRank(b.id[2])
    ELSE IF a.scheduled_start = None THEN TRUE
    ELSE IF b.scheduled_start = None THEN FALSE
    ELSE TextLt(a.scheduled_start, b.scheduled_start)

RECURSIVE OrderRows(_)
OrderRows(S) ==
    IF S = {} THEN <<>>
    ELSE LET first == CHOOSE a \in S : \A b \in S \ {a} : RowBefore(a, b)
         IN <<first>> \o OrderRows(S \ {first})

TaskOfRow(t) ==
    [id |-> t.id,
     case_id |-> t.case_id,
     name |-> t.name,
     status |-> t.status,
     or_room_id |-> t.or_room_id,
     scheduled_start |-> str_to_dt(t.scheduled_start),
     scheduled_end |-> str_to_dt(t.scheduled_end)]

row_to_case(d, id) ==
    LET task_rows == OrderRows({t \in d.surgery_tasks : t.case_id = id})
        row == d.surgery_cases[id]
    IN [id |-> id,
        patient_name |-> row.patient_name,
        procedure_name |-> row.procedure_name,
        priority |-> SurgeryPriority(row.priority),
        requested_datetime |-> str_to_dt(row.requested_datetime),
        status |-> row.status,
        created_at |-> str_to_dt(row.created_at),
        updated_at |-> str_to_dt(row.updated_at),
        tasks |-> [i \in 1..Len(task_rows) |-> TaskOfRow(task_rows[i])]]

\* ---------------------------------------------------------- status refresh
Timed(task) == task.scheduled_start # None /\ task.scheduled_end # None

\* The comparisons of the refresh raise TypeError on an aware task time.
RefreshRaises(case, n) ==
    \E i \in 1..Len(case.tasks) :
        /\ Timed(case.tasks[i])
        /\ \/ DtRaises(n, case.tasks[i].scheduled_end)
           \/ DtRaises(n, case.tasks[i].scheduled_start)

\* Variant: a cancelled or failed task is left as it is.
RefreshedTaskStatus_KeepClosed(task, n) ==
    IF ~Timed(task) \/ task.status \in {"cancelled", "failed"} THEN task.status
    ELSE IF DtLe(task.scheduled_end, n) THEN "done"
    ELSE IF DtLe(task.scheduled_start, n) /\ DtLt(n, task.scheduled_end)
         THEN "in_progress"
    ELSE "scheduled"

\* Variant: a read moves a task one step along scheduled, in_progress, done.
RefreshedTaskStatus_Advance(task, n) ==
    IF ~Timed(task) THEN task.status
    ELSE IF task.status = "in_progress" /\ DtLe(task.scheduled_end, n) THEN "done"
    ELSE IF task.status = "done" THEN "done"
    ELSE IF DtLe(task.scheduled_start, n) THEN "in_progress"
    ELSE "scheduled"

RefreshedTaskStatus(task, n) ==
    IF ~Timed(task) THEN task.status
    ELSE IF DtLe(task.scheduled_end, n) THEN "done"
    ELSE IF DtLe(task.scheduled_start, n) /\ DtLt(n, task.scheduled_end)
         THEN "in_progress"
    ELSE "scheduled"

\* Variant: the test for a non-empty task list is missing.
RefreshedCaseStatus_EmptyCompleted(tasks) ==
    LET timed == {i \in 1..Len(tasks) : Timed(tasks[i])}
    IN IF \E i \in timed : tasks[i].status = "in_progress" THEN "in_progress"
       ELSE IF \A i \in timed : tasks[i].status = "done" THEN "completed"
       ELSE "planned"

RefreshedCaseStatus(tasks) ==
    LET timed == {i \in 1..Len(tasks) : Timed(tasks[i])}
        any_in_progress == \E i \in timed : tasks[i].status = "in_progress"
        all_completed == \A i \in timed : tasks[i].status = "done"
    IN IF any_in_progress THEN "in_progress"
       ELSE IF all_completed /\ Len(tasks) > 0 THEN "completed"
       ELSE "planned"

\* Variant: the refresh leaves updated_at as it was.
refresh_case_status_KeepStamp(case, n) ==
    LET tasks == [i \in 1..Len(case.tasks) |->
                    [case.tasks[i] EXCEPT !.status = RefreshedTaskStatus(case.tasks[i], n)]]
    IN [case EXCEPT !.tasks = tasks,
                    !.status = RefreshedCaseStatus(tasks)]

refresh_case_status(case, n) ==
    LET tasks == [i \in 1..Len(case.tasks) |->
                    [case.tasks[i] EXCEPT !.status = RefreshedTaskStatus(case.tasks[i], n)]]
    IN [case EXCEPT !.tasks = tasks,
                    !.status = RefreshedCaseStatus(tasks),
                    !.updated_at = n]

\* Variant: the refreshed case is returned without being saved.
get_case_NoPersist(d, case_id, n) ==
    LET case == row_to_case(d, case_id)
    IN IF RefreshRaises(case, n)
       THEN [raised |-> TRUE, db |-> d]
       ELSE [raised |-> FALSE, case |-> refresh_case_status(case, n), db |-> d]

\* KnowledgeBase.get_case on a stored id: the refreshed case and the database
\* it leaves, or the TypeError of the refresh.
get_case(d, case_id, n) ==
    LET case == row_to_case(d, case_id)
    IN IF RefreshRaises(case, n)
       THEN [raised |-> TRUE, db |-> d]
       ELSE LET refreshed == refresh_case_status(case, n)
            IN [raised |-> FALSE, case |-> refreshed, db |-> add_case(d, refreshed)]

\* ------------------------------------------------------------------- rooms
\* Variant: the query only looks for tasks that start inside the window.
RoomTaken_StartInside(ts, room, start, end) ==
    \E t \in ts :
        /\ t.or_room_id = room
        /\ t.scheduled_start # None
        /\ t.scheduled_end # None
        /\ TextLt(t.scheduled_start, dt_to_str(end))
        /\ TextLt(dt_to_str(start), t.scheduled_start)

\* Variant: the two bound parameters of the query in the other order.
RoomTaken_Swapped(ts, room, start, end) ==
    \E t \in ts :
        /\ t.or_room_id = room
        /\ t.scheduled_start # None
        /\ t.scheduled_end # None
        /\ TextLt(t.scheduled_start, dt_to_str(start))
        /\ TextLt(dt_to_str(end), t.scheduled_end)

\* Variant: the query passes over the tasks that are done.
RoomTaken_NotDone(ts, room, start, end) ==
    \E t \in ts :
        /\ t.or_room_id = room
        /\ t.status # "done"
        /\ t.scheduled_start # None
        /\ t.scheduled_end # None
        /\ TextLt(t.scheduled_start, dt_to_str(end))
        /\ TextLt(dt_to_str(start), t.scheduled_end)

RoomTaken(ts, room, start, end) ==
    \E t \in ts :
        /\ t.or_room_id = room
        /\ t.scheduled_start # None
        /\ t.scheduled_end # None
        /\ TextLt(t.scheduled_start, dt_to_str(end))
        /\ TextLt(dt_to_str(start), t.scheduled_end)

\* Variant: the rooms are tried from the last one.
find_available_or_Reverse(d, start, end) ==
    LET free == {i \in 1..Len(Rooms) : ~RoomTaken(d.surgery_tasks, Rooms[i], start, end)}
    IN IF free = {} THEN NULL ELSE Rooms[Max(free)]

\* Variant: the last room is handed out when every room is taken.
find_available_or_Default(d, start, end) ==
    LET free == {i \in 1..Len(Rooms) : ~RoomTaken(d.surgery_tasks, Rooms[i], start, end)}
    IN IF free = {} THEN Rooms[Len(Rooms)] ELSE Rooms[Min(free)]

\* Variant: the first room is kept for the emergency cases that are stored.
find_available_or_EmergencyRoom(d, start, end) ==
    LET kept == IF \E id \in DOMAIN d.surgery_cases : d.surgery_cases[id].priority = "emergency"
                THEN {1} ELSE {}
        free == {i \in 1..Len(Rooms) \ kept : ~RoomTaken(d.surgery_tasks, Rooms[i], start, end)}
    IN IF free = {} THEN NULL ELSE Rooms[Min(free)]

find_available_or(d, start, end) ==
    LET free == {i \in 1..Len(Rooms) : ~RoomTaken(d.surgery_tasks, Rooms[i], start, end)}
    IN IF free = {} THEN NULL ELSE Rooms[Min(free)]

\* -------------------------------------------------------------- operations
Ret(op, arg, ret, log) == [op |-> op, arg |-> arg, ret |-> ret, log |-> log]

\* An operation's outcome: the database it leaves and the record of the call.
Out(d, l) == [db |-> d, last |-> l]

Becomes(out) ==
    /\ db' = out.db
    /\ last' = out.last
    /\ UNCHANGED <<clock, pending, notifier, notifications, twin>>

Init ==
    /\ db = [surgery_cases |-> <<>>, surgery_tasks |-> {}]
    /\ clock = 0
    /\ last = Ret("init", NULL, NULL, NULL)
    /\ pending = [waiting |-> {}, running |-> {}, done |-> {}]
    /\ notifier = <<>>
    /\ notifications = <<>>
    /\ twin = <<>>

\* The content of a NEW_CASE request.
NewCaseInput(patient_name, procedure_name, priority, requested_datetime) ==
    [patient_name |-> patient_name,
     procedure_name |-> procedure_name,
     priority |-> priority,
     requested_datetime |-> requested_datetime]

\* The SurgeryCase that Planner.create_case builds.
new_case(case_id, data, gemini, n) ==
    [id |-> case_id,
     patient_name |-> data.patient_name,
     procedure_name |-> data.procedure_name,
     priority |-> data.priority,
     requested_datetime |-> data.requested_datetime,
     status |-> "planned",
     created_at |-> n,
     updated_at |-> n,
     tasks |-> build_tasks_for_case(case_id, data.requested_datetime, gemini)]

\* Planner.create_case, reached by a NEW_CASE request.  An OverflowError of
\* the date arithmetic on the proposals is no GeminiNotAvailable: it leaves
\* the planner before anything is stored.  n is the reading of
\* datetime.utcnow().  The log keeps where the plan came from.
create_case(d, case_id, data, gemini, n) ==
    IF gemini # GeminiNotAvailable /\ PlanOverflows(data.requested_datetime, gemini)
    THEN Out(d, Ret("create_case", case_id, "OverflowError", "gemini"))
    ELSE
    LET case == new_case(case_id, data, gemini, n)
    IN Out(add_case(d, case),
           Ret("create_case", case_id, case_id,
               IF gemini = GeminiNotAvailable THEN "deterministic" ELSE "gemini"))

\* The indices of the tasks with a valid schedule.
tasks_with_time(case) == {i \in 1..Len(case.tasks) : Timed(case.tasks[i])}

\* Variant: the window of the first timed task instead of the envelope.
Envelope_FirstTask(case) ==
    LET i == Min(tasks_with_time(case))
    IN << case.tasks[i].scheduled_start, case.tasks[i].scheduled_end >>

\* start = min(scheduled_start), end = max(scheduled_end) over the timed
\* tasks (all of them naive once the refresh has passed).
Envelope(case) ==
    << Dt(Min({Wall(case.tasks[i].scheduled_start) : i \in tasks_with_time(case)}), FALSE),
       Dt(Max({Wall(case.tasks[i].scheduled_end) : i \in tasks_with_time(case)}), FALSE) >>

\* Variant: only the tasks with a schedule of their own get the room.
AssignRoom_TimedOnly(case, or_room, n) ==
    [case EXCEPT
       !.tasks = [i \in 1..Len(case.tasks) |->
                    IF Timed(case.tasks[i])
                    THEN [case.tasks[i] EXCEPT !.or_room_id = or_room, !.status = "scheduled"]
                    ELSE case.tasks[i]],
       !.updated_at = n]

\* The room found goes to every task of the case, each marked scheduled.
AssignRoom(case, or_room, n) ==
    [case EXCEPT
       !.tasks = [i \in 1..Len(case.tasks) |->
                    [case.tasks[i] EXCEPT !.or_room_id = or_room, !.status = "scheduled"]],
       !.updated_at = n]

\* Executor._schedule_case once find_available_or has answered: no room
\* leaves the case as it was loaded.
schedule_room(got, case_id, or_room) ==
    IF or_room = NULL
    THEN [found |-> FALSE, db |-> got.db,
          last |-> Ret("schedule_case", case_id, case_id, "no_room")]
    ELSE [found |-> TRUE, db |-> got.db, case |-> got.case, or_room |-> or_room]

\* Executor._schedule_case once the case is loaded: the early returns are
\* taken, and a room is looked for over the envelope.
schedule_loaded(got, d, case_id) ==
    IF got.raised
    THEN [found |-> FALSE, db |-> d,
          last |-> Ret("schedule_case", case_id, "TypeError", NULL)]
    ELSE IF Len(got.case.tasks) = 0
    THEN [found |-> FALSE, db |-> got.db,
          last |-> Ret("schedule_case", case_id, case_id, "no_tasks")]
    ELSE IF tasks_with_time(got.case) = {}
    THEN [found |-> FALSE, db |-> got.db,
          last |-> Ret("schedule_case", case_id, case_id, "no_timed_tasks")]
    ELSE schedule_room(got, case_id,
                       find_available_or(got.db, Envelope(got.case)[1], Envelope(got.case)[2]))

\* Executor._schedule_case up to the search for a room: the case is loaded
\* (and its refreshed state persisted), the early returns are taken, and a
\* room is looked for over the envelope.
schedule_find(d, case_id, n) ==
    IF case_id \notin DOMAIN d.surgery_cases
    THEN [found |-> FALSE, db |-> d, last |-> Ret("schedule_case", case_id, NULL, "missing")]
    ELSE schedule_loaded(get_case(d, case_id, n), d, case_id)

\* Executor._schedule_case from the assignment on: the loaded case gets the
\* room and is persisted.
schedule_assign(d, case, or_room, n) ==
    Out(add_case(d, AssignRoom(case, or_room, n)),
        Ret("schedule_case", case.id, case.id, or_room))

\* Executor._schedule_case after the search f: a room found is assigned.
schedule_found(f, n) ==
    IF f.found
    THEN schedule_assign(f.db, f.case, f.or_room, n)
    ELSE Out(f.db, f.last)

\* Executor._schedule_case, reached by a SCHEDULE_CASE request.
schedule_case(d, case_id, n) == schedule_found(schedule_find(d, case_id, n), n)

\* The database after refreshing and re-persisting, one after the other, the
\* cases of S (each: _row_to_case, _refresh_case_status, add_case).
RECURSIVE RefreshAndPersist(_, _, _)
RefreshAndPersist(d, S, n) ==
    IF S = {} THEN d
    ELSE LET id == CHOOSE i \in S : TRUE
         IN RefreshAndPersist(get_case(d, id, n).db, S \ {id}, n)

\* ----------------------------------------------------------------- actions
\* A NEW_CASE request: a fresh case id, the requested time (with or without
\* UTC offset), what the external suggestion answers, and the server's zone.
CreateCaseFrom(ids, times, awares, outcomes, zones) ==
    \E case_id \in ids \ DOMAIN db.surgery_cases, t \in times, aware \in awares,
       gemini \in outcomes, ahead \in zones :
        Becomes(create_case(db, case_id,
                            NewCaseInput("Juan Perez", "Colecistectomia", "ELECTIVE", Dt(t, aware)),
                            gemini, utcnow(ahead)))

CreateCase == CreateCaseFrom(CaseIds, ReqTimes, BOOLEAN, GeminiPlans \cup {GeminiNotAvailable}, UtcZone)

\* The same with a requested time without offset, as the form sends it.
CreateNaiveCase == CreateCaseFrom(CaseIds, ReqTimes, {FALSE}, GeminiPlans \cup {GeminiNotAvailable}, UtcZone)

\* KnowledgeBase.get_case.
GetCase ==
    \E case_id \in CaseIds :
        IF case_id \notin DOMAIN db.surgery_cases
        THEN Becomes(Out(db, Ret("get_case", case_id, NULL, NULL)))
        ELSE \E got \in {get_case(db, case_id, now)} :
                Becomes(Out(got.db, Ret("get_case", case_id,
                                        IF got.raised THEN "TypeError" ELSE case_id, NULL)))

\* KnowledgeBase.list_cases: the rows are visited by created_at descending
\* (rows with equal created_at in any order); each case is refreshed and
\* persisted before the next one is loaded, so a refresh that raises leaves
\* the cases visited before it persisted.
ListCases ==
    LET ids == DOMAIN db.surgery_cases
        failing == {i \in ids : RefreshRaises(row_to_case(db, i), now)}
        Newer(i, j) == TextLt(db.surgery_cases[j].created_at, db.surgery_cases[i].created_at)
    IN IF failing = {}
       THEN Becomes(Out(RefreshAndPersist(db, ids, now), Ret("list_cases", NULL, "ok", NULL)))
       ELSE \E f \in failing :
              /\ \A g \in failing : ~Newer(g, f)
              /\ \E tied \in SUBSET {i \in ids \ failing :
                                       db.surgery_cases[i].created_at = db.surgery_cases[f].created_at} :
                   Becomes(Out(RefreshAndPersist(db, {i \in ids : Newer(i, f)} \cup tied, now),
                               Ret("list_cases", NULL, "TypeError", NULL)))

\* KnowledgeBase.delete_case.
DeleteCaseIn(ids) ==
    \E case_id \in ids :
        Becomes(Out(delete_case(db, case_id), Ret("delete_case", case_id, NULL, NULL)))

DeleteCase == DeleteCaseIn(CaseIds)

\* A SCHEDULE_CASE request handled from arrival to response.
ScheduleCaseIn(ids) ==
    \E case_id \in ids :
        \E out \in {schedule_case(db, case_id, now)} : Becomes(out)

ScheduleCase == ScheduleCaseIn(CaseIds)

\* A call of KnowledgeBase.find_available_or on the stored tasks.
FindAvailableOr ==
    \E s \in Clock : \E e \in {x \in Clock : x >= s} :
        Becomes(Out(db, Ret("find_available_or", <<s, e>>,
                            find_available_or(db, Dt(s, FALSE), Dt(e, FALSE)), NULL)))

\* The wall clock advances between requests.
Tick ==
    /\ clock < MaxTicks * ClockStep
    /\ clock' = clock + ClockStep
    /\ last' = Ret("tick", NULL, NULL, NULL)
    /\ UNCHANGED <<db, pending, notifier, notifications, twin>>

Next ==
    \/ CreateCase
    \/ GetCase
    \/ ListCases
    \/ ScheduleCase
    \/ DeleteCase
    \/ Tick

Spec == Init /\ [][Next]_vars

\* find_available_or called on the stores that creating, scheduling and
\* deleting cases leave.
NextFind ==
    \/ CreateNaiveCase
    \/ ScheduleCase
    \/ DeleteCase
    \/ FindAvailableOr

SpecFind == Init /\ [][NextFind]_vars

\* ------------------------------------------------- the store used directly
\* KnowledgeBase.add_case called with a case built by hand: any task list a
\* SurgeryTask allows (no task, tasks without one or both bounds, any status),
\* no room assigned.
KbWindow == <<Dt(Step, FALSE), Dt(3 * Step, FALSE)>>
KbTaskKinds ==
    { <<"pending", KbWindow>>, <<"failed", KbWindow>>, <<"cancelled", KbWindow>>,
      <<"pending", <<None, None>>>>, <<"cancelled", <<KbWindow[1], None>>>> }
KbTaskLists == UNION {[1..n -> KbTaskKinds] : n \in 0..MaxKbTasks}
XSuffix == <<"X1", "X2", "X3">>

KbCase(case_id, kinds, n) ==
    [id |-> case_id,
     patient_name |-> "Juan Perez",
     procedure_name |-> "Colecistectomia",
     priority |-> "ELECTIVE",
     requested_datetime |-> Dt(Step, FALSE),
     status |-> "new",
     created_at |-> n,
     updated_at |-> n,
     tasks |-> [i \in 1..Len(kinds) |->
                  [id |-> generate_task_id(case_id, XSuffix[i]),
                   case_id |-> case_id,
                   name |-> "Tarea",
                   status |-> kinds[i][1],
                   or_room_id |-> NULL,
                   scheduled_start |-> kinds[i][2][1],
                   scheduled_end |-> kinds[i][2][2]]]]

AddCase ==
    \E case_id \in CaseIds, kinds \in KbTaskLists :
        Becomes(Out(add_case(db, KbCase(case_id, kinds, now)),
                    Ret("add_case", case_id, NULL, NULL)))

NextKB ==
    \/ AddCase
    \/ GetCase
    \/ ListCases
    \/ ScheduleCase
    \/ DeleteCase
    \/ Tick

SpecKB == Init /\ [][NextKB]_vars

\* ----------------------------------------------------------- notifications
\* KnowledgeBase.add_notification: a row with the next id of the
\* autoincrement key, stamped with the local time.
add_notification(rows, message, n) ==
    Append(rows, [id |-> Len(rows) + 1, timestamp |-> dt_to_str(n), message |-> message])

\* The first k elements of a sequence.
Limit(seq, k) == SubSeq(seq, 1, IF Len(seq) < k THEN Len(seq) ELSE k)

Reverse(seq) == [i \in 1..Len(seq) |-> seq[Len(seq) + 1 - i]]

\* KnowledgeBase.list_notifications: ORDER BY id DESC LIMIT 50.
list_notifications(rows) ==
    LET latest == Limit(Reverse(rows), NOTIFICATION_LIMIT)
    IN [i \in 1..Len(latest) |->
          [timestamp |-> str_to_dt(latest[i].timestamp), message |-> latest[i].message]]

\* Notifier.add_notification: an entry appended to the list in memory,
\* stamped with the UTC time.
notifier_add_notification(nt, message, data, utc) ==
    Append(nt, [timestamp |-> dt_to_str(utc), message |-> message, data |-> data])

\* Notifier.list_notifications: a copy of the list, in the order of arrival.
notifier_list_notifications(nt) == [i \in 1..Len(nt) |-> nt[i]]

\* ------------------------------------------------ the store's transactions
Tables(d) == [surgery_cases |-> d.surgery_cases, surgery_tasks |-> d.surgery_tasks]

\* The tables as last committed.
Committed(d) == IF "committed" \in DOMAIN d THEN d.committed ELSE Tables(d)

\* The first task of the case whose INSERT the primary key of surgery_tasks
\* rejects (its id is stored under another case, or was inserted earlier in
\* the loop); 0 if there is none.
RejectedInsert(d, case) ==
    LET kept == {r.id : r \in {t \in d.surgery_tasks : t.case_id # case.id}}
        bad == {i \in 1..Len(case.tasks) :
                   \/ case.tasks[i].id \in kept
                   \/ \E j \in 1..(i - 1) : case.tasks[j].id = case.tasks[i].id}
    IN IF bad = {} THEN 0 ELSE Min(bad)

\* KnowledgeBase.add_case with its failure: the IntegrityError leaves the
\* method before commit() and nothing rolls back, so the connection keeps
\* the replaced case row, the deletion of the former tasks and the tasks
\* inserted before the rejected one in an open transaction.
add_case_tx(d, case) ==
    LET i == RejectedInsert(d, case)
    IN IF i = 0
       THEN [raised |-> FALSE, db |-> add_case(d, case)]
       ELSE LET partial == add_case(d, [case EXCEPT !.tasks = SubSeq(case.tasks, 1, i - 1)])
            IN [raised |-> TRUE,
                db |-> [surgery_cases |-> partial.surgery_cases,
                        surgery_tasks |-> partial.surgery_tasks,
                        committed |-> Committed(d)]]

\* Cases built by hand for add_case, all created at the same instant: two
\* patients, task lists with no task,
\* with tasks of the case's own ids, with one id twice, and with an id that
\* belongs to the first case.
StoreProfiles ==
    { NewCaseInput("Juan Perez", "Colecistectomia", "ELECTIVE", Dt(Step, FALSE)),
      NewCaseInput("Ana Ruiz", "Apendicectomia", "URGENT", Dt(Step, TRUE)) }

StoreTask(id, case_id, status, or_room, window) ==
    [id |-> id,
     case_id |-> case_id,
     name |-> "Tarea",
     status |-> status,
     or_room_id |-> or_room,
     scheduled_start |-> window[1],
     scheduled_end |-> window[2]]

StoreTaskLists(case_id) ==
    LET own1 == generate_task_id(case_id, "X1")
        own2 == generate_task_id(case_id, "X2")
        first == generate_task_id(CaseNames[1], "X1")
    IN { <<>>,
         <<StoreTask(own1, case_id, "pending", NULL, KbWindow)>>,
         <<StoreTask(own1, case_id, "failed", "OR-1", KbWindow),
           StoreTask(own2, case_id, "cancelled", NULL, <<None, None>>)>>,
         <<StoreTask(own2, case_id, "pending", "OR-2", KbWindow),
           StoreTask(own2, case_id, "pending", NULL, KbWindow)>>,
         <<StoreTask(own2, case_id, "pending", NULL, KbWindow),
           StoreTask(first, case_id, "pending", NULL, KbWindow)>> }

StoreCases ==
    { [id |-> case_id,
       patient_name |-> data.patient_name,
       procedure_name |-> data.procedure_name,
       priority |-> data.priority,
       requested_datetime |-> data.requested_datetime,
       status |-> "new",
       created_at |-> Dt(0, FALSE),
       updated_at |-> Dt(0, FALSE),
       tasks |-> tasks] :
      case_id \in CaseIds, data \in StoreProfiles, tasks \in UNION {StoreTaskLists(i) : i \in CaseIds} }

\* KnowledgeBase.add_case called with a case built by hand.
AddOrReplaceCase ==
    \E case \in StoreCases :
        /\ \A i \in 1..Len(case.tasks) : case.tasks[i].case_id = case.id
        /\ \E out \in {add_case_tx(db, case)} :
              Becomes(Out(out.db,
                          Ret("add_case", case,
                              IF out.raised THEN "IntegrityError" ELSE NULL,
                              IF out.raised THEN "raised" ELSE "saved")))

\* KnowledgeBase.get_case with the case it returns.
ReadCase ==
    \E case_id \in CaseIds :
        IF case_id \notin DOMAIN db.surgery_cases
        THEN Becomes(Out(db, Ret("get_case", case_id, NULL, "none")))
        ELSE \E got \in {get_case(db, case_id, now)} :
                IF got.raised
                THEN Becomes(Out(got.db, Ret("get_case", case_id, "TypeError", "raised")))
                ELSE Becomes(Out(got.db, Ret("get_case", case_id, got.case, "returned")))

\* KnowledgeBase.list_cases with the list it returns, newest first (rows
\* with equal created_at in any order).
ReadCases ==
    LET ids == DOMAIN db.surgery_cases
        Newer(i, j) == TextLt(db.surgery_cases[j].created_at, db.surgery_cases[i].created_at)
    IN /\ \A i \in ids : ~RefreshRaises(row_to_case(db, i), now)
       /\ \E order \in [1..Cardinality(ids) -> ids] :
             /\ \A i, j \in 1..Cardinality(ids) : i < j =>
                    order[i] # order[j] /\ ~Newer(order[j], order[i])
             /\ Becomes(Out(RefreshAndPersist(db, ids, now),
                            Ret("list_cases", NULL,
                                [i \in 1..Cardinality(ids) |->
                                    refresh_case_status(row_to_case(db, order[i]), now)],
                                "returned")))

\* KnowledgeBase.add_notification: its INSERT goes to the notifications
\* table; its commit() closes whatever transaction the connection has open.
AddNotification ==
    /\ Len(notifications) < MaxStoreNotes
    /\ db' = Tables(db)
    /\ notifications' = add_notification(notifications, "Caso eliminado desde la interfaz.", now)
    /\ last' = Ret("add_notification", NULL, NULL, NULL)
    /\ UNCHANGED <<clock, pending, notifier, twin>>

\* The process ends and the application starts again: the new connection
\* sees what was committed, and the notifier's list starts empty.
Restart ==
    /\ db' = Committed(db)
    /\ notifier' = <<>>
    /\ last' = Ret("restart", NULL, NULL, NULL)
    /\ UNCHANGED <<clock, pending, notifications, twin>>

NextStore ==
    \/ AddOrReplaceCase
    \/ ReadCase
    \/ ReadCases
    \/ DeleteCase
    \/ AddNotification
    \/ Restart
    \/ Tick

SpecStore == Init /\ [][NextStore]_vars

\* ------------------------------------------ the planner and its suggestion
\* A NEW_CASE request with what the external model answers to it.
CreatePlannedCase ==
    \E case_id \in CaseIds \ DOMAIN db.surgery_cases, t \in ReqTimes, aware \in BOOLEAN,
       reply \in Replies :
        Becomes(create_case(db, case_id,
                            NewCaseInput("Juan Perez", "Colecistectomia", "ELECTIVE", Dt(t, aware)),
                            suggest_tasks_for_surgery(reply), utcnow(0)))

NextPlan ==
    \/ CreatePlannedCase
    \/ GetCase
    \/ DeleteCase
    \/ Tick

SpecPlan == Init /\ [][NextPlan]_vars

\* ------------------------------------------------ more cases than rooms
CreateRoomCase == CreateCaseFrom(RoomCaseIds, {2 * Step}, {FALSE}, {GeminiNotAvailable}, UtcZone)
ScheduleRoomCase == ScheduleCaseIn(RoomCaseIds)
DeleteRoomCase == DeleteCaseIn(RoomCaseIds)

NextRooms ==
    \/ CreateRoomCase
    \/ ScheduleRoomCase
    \/ DeleteRoomCase
    \/ FindAvailableOr

SpecRooms == Init /\ [][NextRooms]_vars

\* ------------------------------------------- requests arriving concurrently
\* Variant: the endpoints are plain functions, which the framework runs in
\* its thread pool, so a handler starts while another is under way.
EventLoopFree_ThreadPool(running) == TRUE

\* The endpoints are coroutines without an await: the event loop runs the
\* handler of one accepted request to its response before it starts the next.
EventLoopFree(running) == running = {}

Arrive ==
    \E case_id \in CaseIds \ pending.waiting :
        /\ case_id \notin {r.case.id : r \in pending.running}
        /\ pending' = [pending EXCEPT
                         !.waiting = @ \cup {case_id},
                         !.done = IF pending.waiting = {} /\ pending.running = {}
                                  THEN {} ELSE @]
        /\ UNCHANGED <<db, clock, last, notifier, notifications, twin>>

\* The handler of an accepted SCHEDULE_CASE request runs up to the room it
\* found, or to its early return.
StartSchedule ==
    \E case_id \in pending.waiting :
        /\ EventLoopFree(pending.running)
        /\ \E f \in {schedule_find(db, case_id, now)} :
              /\ db' = f.db
              /\ IF f.found
                 THEN /\ pending' = [pending EXCEPT
                                       !.waiting = @ \ {case_id},
                                       !.running = @ \cup {[case |-> f.case, or_room |-> f.or_room]}]
                      /\ UNCHANGED last
                 ELSE /\ pending' = [pending EXCEPT
                                       !.waiting = @ \ {case_id},
                                       !.done = @ \cup {case_id}]
                      /\ last' = f.last
        /\ UNCHANGED <<clock, notifier, notifications, twin>>

\* The handler assigns the room it found and answers.
FinishSchedule ==
    \E r \in pending.running :
        \E out \in {schedule_assign(db, r.case, r.or_room, now)} :
            /\ db' = out.db
            /\ last' = out.last
            /\ pending' = [pending EXCEPT
                             !.running = @ \ {r},
                             !.done = @ \cup {r.case.id}]
            /\ UNCHANGED <<clock, notifier, notifications, twin>>

CreateCaseBetween == EventLoopFree(pending.running) /\ CreateNaiveCase
DeleteCaseBetween == EventLoopFree(pending.running) /\ DeleteCase

NextConc ==
    \/ CreateCaseBetween
    \/ DeleteCaseBetween
    \/ Arrive
    \/ StartSchedule
    \/ FinishSchedule

SpecConc == Init /\ [][NextConc]_vars

\* ------------------------------------------------------ messages and agents
\* protocols.build_message.  The id and the created_at of an envelope are
\* fresh for every message and are left out.
build_message(performative, sender, receiver, protocols, content) ==
    [performative |-> performative,
     sender |-> sender,
     receiver |-> receiver,
     protocols |-> protocols,
     content |-> content]

\* A payload is a function from field names to what was sent: texts for the
\* names and the priority, and for the requested time a text <<wall, suffix>>
\* with suffix 0 (no offset), 1 ("Z" or "+00:00") or 2 (no date at all).
RequiredFields == {"patient_name", "procedure_name", "requested_datetime"}
IsoText(text) == text[2] \in {0, 1}

\* Variant: the text of the requested time is not checked.
Malformed_NoDateCheck(payload) ==
    \/ RequiredFields \ DOMAIN payload # {}
    \/ /\ "priority" \in DOMAIN payload
       /\ payload.priority \notin {PriorityValues[i] : i \in 1..Len(PriorityValues)}

\* NewCaseInput(**payload) raises ValidationError: a required field is
\* missing, the priority is no value of SurgeryPriority, or the requested time
\* does not parse.  A missing priority takes the default.
Malformed(payload) ==
    \/ RequiredFields \ DOMAIN payload # {}
    \/ /\ "priority" \in DOMAIN payload
       /\ payload.priority \notin {PriorityValues[i] : i \in 1..Len(PriorityValues)}
    \/ ~IsoText(payload.requested_datetime)

NewCaseInputFrom(payload) ==
    NewCaseInput(payload.patient_name,
                 payload.procedure_name,
                 IF "priority" \in DOMAIN payload
                 THEN SurgeryPriority(payload.priority) ELSE "ELECTIVE",
                 str_to_dt(payload.requested_datetime))

\* What delivering a message comes to: the handler raises, returns None, or
\* returns a response; the database and the notifier's list it leaves.
Raises(exc, d, nt) == [raised |-> exc, answered |-> FALSE, db |-> d, notifier |-> nt]
NoAnswer(d, nt) == [raised |-> NULL, answered |-> FALSE, db |-> d, notifier |-> nt]
Answered(response, d, nt) ==
    [raised |-> NULL, answered |-> TRUE, response |-> response, db |-> d, notifier |-> nt]

AgentProtocols == <<"A2A", "ACP", "MCP">>

\* The answer of Planner.handle_message once create_case is done.
planner_response(out, nt, message, case) ==
    IF out.last.ret = "OverflowError"
    THEN Raises("OverflowError", out.db, nt)
    ELSE Answered(build_message("INFORM", "planner", message.sender,
                                AgentProtocols,
                                [type |-> "NEW_CASE_CREATED",
                                 payload |-> [case |-> case]]),
                  out.db, nt)

\* Planner.handle_message.  case_id and gemini are the fresh id and the
\* external suggestion of this request, utc the reading of datetime.utcnow().
planner_handle_message(d, nt, message, case_id, gemini, utc) ==
    IF message.performative = "REQUEST" /\ message.content.type = "NEW_CASE"
    THEN IF Malformed(message.content.payload)
         THEN Raises("ValidationError", d, nt)
         ELSE planner_response(
                 create_case(d, case_id, NewCaseInputFrom(message.content.payload), gemini, utc),
                 nt, message,
                 new_case(case_id, NewCaseInputFrom(message.content.payload), gemini, utc))
    ELSE NoAnswer(d, nt)

\* Variant: the case is answered as it was stored before the request.
scheduled_case_Stale(d, case_id, n) == row_to_case(d, case_id)

\* The case Executor._schedule_case returns after the search f on a stored
\* case whose refresh does not raise.
found_case(f, d, case_id, n) ==
    IF f.found
    THEN AssignRoom(f.case, f.or_room, n)
    ELSE get_case(d, case_id, n).case

\* The case Executor._schedule_case returns for a stored case whose refresh
\* does not raise: the case with its room, or the case as get_case gave it.
scheduled_case(d, case_id, n) == found_case(schedule_find(d, case_id, n), d, case_id, n)

\* The answer of Executor.handle_message once _schedule_case is done.
executor_response(out, d, nt, message, n) ==
    IF out.last.ret = NULL
    THEN NoAnswer(out.db, nt)
    ELSE IF out.last.ret = "TypeError"
    THEN Raises("TypeError", out.db, nt)
    ELSE Answered(build_message("INFORM", "executor", message.sender,
                                AgentProtocols,
                                [type |-> "CASE_SCHEDULED",
                                 payload |-> [case |-> scheduled_case(d, message.content.case_id, n)]]),
                  out.db, nt)

\* Executor.handle_message.
executor_handle_message(d, nt, message, n) ==
    IF message.performative = "REQUEST" /\ message.content.type = "SCHEDULE_CASE"
    THEN IF message.content.case_id = ""
         THEN NoAnswer(d, nt)
         ELSE executor_response(schedule_case(d, message.content.case_id, n), d, nt, message, n)
    ELSE NoAnswer(d, nt)

\* Variant: the notifier records a message of any performative.
notifier_handle_message_AnyPerformative(d, nt, message, utc) ==
    Answered([status |-> "notification_recorded", event_type |-> message.content.type],
             d,
             notifier_add_notification(nt, <<"Evento recibido: ", message.content.type>>,
                                       [content |-> message.content], utc))

\* Notifier.handle_message: every INFORM is recorded.
notifier_handle_message(d, nt, message, utc) ==
    IF message.performative = "INFORM"
    THEN Answered([status |-> "notification_recorded", event_type |-> message.content.type],
                  d,
                  notifier_add_notification(nt, <<"Evento recibido: ", message.content.type>>,
                                            [content |-> message.content], utc))
    ELSE NoAnswer(d, nt)

\* MessageBus.send to one of the agents the endpoints address; a role without
\* a registered agent gets no delivery.
send(d, nt, message, case_id, gemini, n, utc) ==
    IF message.receiver = "planner"
    THEN planner_handle_message(d, nt, message, case_id, gemini, utc)
    ELSE IF message.receiver = "executor"
    THEN executor_handle_message(d, nt, message, n)
    ELSE IF message.receiver = "notifier"
    THEN notifier_handle_message(d, nt, message, utc)
    ELSE NoAnswer(d, nt)

\* ------------------------------------------------------------ the endpoints
\* The HTTP answer of an endpoint.
Response(status_code, body) == [status_code |-> status_code, body |-> body]

\* An endpoint's outcome takes effect.
Responds(op, arg, response, log, d, nt, rows) ==
    /\ db' = d
    /\ notifier' = nt
    /\ notifications' = rows
    /\ last' = Ret(op, arg, response, log)
    /\ UNCHANGED <<clock, pending, twin>>

NewCaseMessage(payload) ==
    build_message("REQUEST", "ui", "planner", <<"AG-UI", "ACP", "MCP", "A2A">>,
                  [type |-> "NEW_CASE", payload |-> payload])

ScheduleCaseMessage(case_id) ==
    build_message("REQUEST", "ui", "executor", AgentProtocols,
                  [type |-> "SCHEDULE_CASE", case_id |-> case_id])

NotifyMessage(type, case_id) ==
    build_message("INFORM", "ui", "notifier", AgentProtocols,
                  [type |-> type, payload |-> [case_id |-> case_id]])

\* What an endpoint answers and leaves behind.
Outcome(response, log, d, nt) == [response |-> response, log |-> log, db |-> d, notifier |-> nt]

\* The form routes redirect to the case once the notifier has been told.
Redirected(told, case_id, log) ==
    Outcome(Response(303, <<"/cases/", case_id>>), log, told.db, told.notifier)

\* The form routes after the agent's answer r: an exception of the agent is
\* not handled (500), no answer is a 500, an answer is notified.
form_response(r, error, log, type, case_id, gemini, n, utc) ==
    IF r.raised # NULL
    THEN Outcome(Response(500, r.raised), "raised", r.db, r.notifier)
    ELSE IF ~r.answered
    THEN Outcome(Response(500, error), "no_response", r.db, r.notifier)
    ELSE Redirected(send(r.db, r.notifier, NotifyMessage(type, case_id), case_id, gemini, n, utc),
                    case_id, log)

\* The JSON routes after the agent's answer r; no notification is sent.
api_response(r, error, log) ==
    IF r.raised # NULL
    THEN Outcome(Response(500, r.raised), "raised", r.db, r.notifier)
    ELSE IF ~r.answered
    THEN Outcome(Response(500, error), "no_response", r.db, r.notifier)
    ELSE Outcome(Response(200, r.response), log, r.db, r.notifier)

\* POST /cases.  The four form fields are required by the route (422 when one
\* is missing); the planner's exceptions are not handled (500).
create_case_from_form(d, nt, payload, case_id, gemini, n, utc) ==
    IF DOMAIN payload # RequiredFields \cup {"priority"}
    THEN Outcome(Response(422, "missing"), "rejected", d, nt)
    ELSE form_response(send(d, nt, NewCaseMessage(payload), case_id, gemini, n, utc),
                       "Error al crear el caso de cirugia.", "created", "NEW_CASE_CREATED",
                       case_id, gemini, n, utc)

\* POST /api/cases.  The body is validated as a NewCaseInput by the route
\* (422); no notification is sent.
api_create_case(d, nt, payload, case_id, gemini, n, utc) ==
    IF Malformed(payload)
    THEN Outcome(Response(422, "invalid"), "rejected", d, nt)
    ELSE api_response(send(d, nt, NewCaseMessage(payload), case_id, gemini, n, utc),
                      "Error al crear el caso de cirugia.", "created")

\* POST /cases/{case_id}/schedule.
schedule_case_from_form(d, nt, case_id, n, utc) ==
    form_response(send(d, nt, ScheduleCaseMessage(case_id), NULL, GeminiNotAvailable, n, utc),
                  "Error al programar el caso.", "scheduled", "CASE_SCHEDULED",
                  case_id, GeminiNotAvailable, n, utc)

\* POST /api/cases/{case_id}/schedule.
api_schedule_case(d, nt, case_id, n, utc) ==
    api_response(send(d, nt, ScheduleCaseMessage(case_id), NULL, GeminiNotAvailable, n, utc),
                 "Error al programar el caso.", "scheduled")

\* GET /cases/{case_id}.
case_detail(d, nt, case_id, n) ==
    IF case_id \notin DOMAIN d.surgery_cases
    THEN [response |-> Response(404, "Caso no encontrado"), log |-> "none", db |-> d, notifier |-> nt]
    ELSE LET got == get_case(d, case_id, n)
         IN IF got.raised
            THEN [response |-> Response(500, "TypeError"), log |-> "raised", db |-> got.db, notifier |-> nt]
            ELSE [response |-> Response(200, got.case), log |-> "returned", db |-> got.db, notifier |-> nt]

\* What the clients send as the content of a new case: a complete payload
\* with a local time or a time with offset, an unknown priority, a text that
\* is no date, a payload without procedure_name, one without priority.
Payload(priority, text) ==
    [patient_name |-> "Juan Perez",
     procedure_name |-> "Colecistectomia",
     priority |-> priority,
     requested_datetime |-> text]
NoProcedure(text) ==
    [patient_name |-> "Juan Perez", priority |-> "elective", requested_datetime |-> text]
NoPriority(text) ==
    [patient_name |-> "Juan Perez",
     procedure_name |-> "Colecistectomia",
     requested_datetime |-> text]

Payloads ==
    { Payload("elective", <<Step, 0>>), Payload("emergency", <<Step, 1>>),
      Payload("high", <<Step, 0>>), Payload("urgent", <<Step, 2>>),
      NoProcedure(<<Step, 0>>), NoPriority(<<Step, 0>>) }

\* The external suggestion is not available, or proposes a task out of range.
ApiOutcomes == {GeminiNotAvailable, <<Prop(FarOffset, Step)>>}

CreateCaseFromForm ==
    /\ Len(notifier) < MaxNotes
    /\ \E payload \in Payloads, case_id \in CaseIds \ DOMAIN db.surgery_cases,
          gemini \in ApiOutcomes :
          \E r \in {create_case_from_form(db, notifier, payload, case_id, gemini, now, utcnow(0))} :
             Responds("create_case_from_form", payload, r.response, r.log,
                      r.db, r.notifier, notifications)

ApiCreateCase ==
    \E payload \in Payloads, case_id \in CaseIds \ DOMAIN db.surgery_cases,
       gemini \in ApiOutcomes :
       \E r \in {api_create_case(db, notifier, payload, case_id, gemini, now, utcnow(0))} :
          Responds("api_create_case", payload, r.response, r.log,
                   r.db, r.notifier, notifications)

ScheduleCaseFromFormIn(ids, cap) ==
    /\ Len(notifier) < cap
    /\ \E case_id \in ids :
          \E r \in {schedule_case_from_form(db, notifier, case_id, now, utcnow(0))} :
             Responds("schedule_case_from_form", case_id, r.response, r.log,
                      r.db, r.notifier, notifications)

ScheduleCaseFromForm == ScheduleCaseFromFormIn(CaseIds, MaxNotes)

ApiScheduleCaseIn(ids) ==
    \E case_id \in ids :
       \E r \in {api_schedule_case(db, notifier, case_id, now, utcnow(0))} :
          Responds("api_schedule_case", case_id, r.response, r.log,
                   r.db, r.notifier, notifications)

ApiScheduleCase == ApiScheduleCaseIn(CaseIds)

CaseDetail ==
    \E case_id \in CaseIds :
       \E r \in {case_detail(db, notifier, case_id, now)} :
          Responds("case_detail", case_id, r.response, r.log, r.db, r.notifier, notifications)

\* POST /cases/{case_id}/delete: the case is deleted from the knowledge base
\* and a notification is written to the SQLite table.
DeleteCaseFromForm ==
    /\ Len(notifications) < MaxNotes
    /\ \E case_id \in CaseIds :
          Responds("delete_case_from_form", case_id, Response(303, <<"/">>), "deleted",
                   delete_case(db, case_id), notifier,
                   add_notification(notifications,
                                    <<"Caso ", case_id, " eliminado desde la interfaz.">>, now))

\* GET /api/notifications: what the notifier lists.
ApiNotifications ==
    Responds("api_notifications", NULL,
             Response(200, notifier_list_notifications(notifier)), "listed",
             db, notifier, notifications)

NextApi ==
    \/ CreateCaseFromForm
    \/ ApiCreateCase
    \/ ScheduleCaseFromForm
    \/ ApiScheduleCase
    \/ CaseDetail
    \/ DeleteCaseFromForm
    \/ ApiNotifications

SpecApi == Init /\ [][NextApi]_vars

\* ------------------------------------------- more requests than rooms
\* Cases for one and the same time are created through the JSON endpoint, one
\* id after the other, and scheduled through both endpoints.
BusyPayload == Payload("elective", <<2 * Step, 0>>)

ApiCreateBusyCase ==
    \E i \in 1..MaxRoomCases :
       /\ DOMAIN db.surgery_cases = {CaseNames[j] : j \in 1..(i - 1)}
       /\ \E r \in {api_create_case(db, notifier, BusyPayload, CaseNames[i],
                                    GeminiNotAvailable, now, utcnow(0))} :
             Responds("api_create_case", BusyPayload, r.response, r.log,
                      r.db, r.notifier, notifications)

ScheduleBusyCaseFromForm == ScheduleCaseFromFormIn(DOMAIN db.surgery_cases, MaxBusyNotes)
ApiScheduleBusyCase == ApiScheduleCaseIn(DOMAIN db.surgery_cases)

NextBusy ==
    \/ ApiCreateBusyCase
    \/ ScheduleBusyCaseFromForm
    \/ ApiScheduleBusyCase

SpecBusy == Init /\ [][NextBusy]_vars

\* ------------------------------------------- two runs, other priorities
\* The same requests reach two servers at the same moments; only the priority
\* of a new case may differ between the two.
InitTwin ==
    /\ db = [surgery_cases |-> <<>>, surgery_tasks |-> {}]
    /\ twin = [surgery_cases |-> <<>>, surgery_tasks |-> {}]
    /\ clock = 0
    /\ last = Ret("init", NULL, NULL, NULL)
    /\ pending = [waiting |-> {}, running |-> {}, done |-> {}]
    /\ notifier = <<>>
    /\ notifications = <<>>

\* The priorities the two runs choose from.
TwinPriorities == {"EMERGENCY", "ELECTIVE"}

\* An operation's outcome takes effect in both runs.
BecomeBoth(out, other) ==
    /\ db' = out.db
    /\ twin' = other.db
    /\ last' = out.last
    /\ UNCHANGED <<clock, pending, notifier, notifications>>

CreateTwinCase ==
    \E case_id \in CaseIds \ DOMAIN db.surgery_cases, t \in ReqTimes,
       priority \in TwinPriorities, other \in TwinPriorities :
        BecomeBoth(create_case(db, case_id,
                               NewCaseInput("Juan Perez", "Colecistectomia",
                                            priority, Dt(t, FALSE)),
                               GeminiNotAvailable, utcnow(0)),
                   create_case(twin, case_id,
                               NewCaseInput("Juan Perez", "Colecistectomia",
                                            other, Dt(t, FALSE)),
                               GeminiNotAvailable, utcnow(0)))

ScheduleTwinCase ==
    \E case_id \in CaseIds :
        BecomeBoth(schedule_case(db, case_id, now), schedule_case(twin, case_id, now))

GetTwinCase ==
    \E case_id \in DOMAIN db.surgery_cases :
        BecomeBoth(Out(get_case(db, case_id, now).db, Ret("get_case", case_id, case_id, NULL)),
                   Out(get_case(twin, case_id, now).db, Ret("get_case", case_id, case_id, NULL)))

DeleteTwinCase ==
    \E case_id \in CaseIds :
        BecomeBoth(Out(delete_case(db, case_id), Ret("delete_case", case_id, NULL, NULL)),
                   Out(delete_case(twin, case_id), Ret("delete_case", case_id, NULL, NULL)))

NextTwin ==
    \/ CreateTwinCase
    \/ ScheduleTwinCase
    \/ GetTwinCase
    \/ DeleteTwinCase
    \/ Tick

SpecTwin == InitTwin /\ [][NextTwin]_vars

\* --------------------------------------------------------------- monitor
\* Counter(case.status.value for case in cases) as a dict: the statuses that
\* occur, each with the number of cases that have it.
Counter(statuses) ==
    [s \in {statuses[i] : i \in DOMAIN statuses} |->
        Cardinality({i \in DOMAIN statuses : statuses[i] = s})]

\* Variant: the cases are counted as they are stored, without a refresh.
get_snapshot_Stored(d, n) ==
    [snapshot |-> [total_cases |-> Cardinality(DOMAIN d.surgery_cases),
                   total_or_rooms |-> Len(Rooms),
                   cases_by_status |-> Counter([id \in DOMAIN d.surgery_cases |->
                                                   d.surgery_cases[id].status])],
     db |-> d]

\* Monitor.get_snapshot when list_cases returns: the cases are refreshed and
\* persisted, then counted.
get_snapshot(d, n) ==
    LET ids == DOMAIN d.surgery_cases
        cases == [id \in ids |-> refresh_case_status(row_to_case(d, id), n)]
    IN [snapshot |-> [total_cases |-> Cardinality(ids),
                      total_or_rooms |-> Len(Rooms),
                      cases_by_status |-> Counter([id \in ids |-> cases[id].status])],
        db |-> RefreshAndPersist(d, ids, n)]

\* GET /api/monitor/snapshot.  When the refresh of a case raises, list_cases
\* leaves the cases it visited before persisted (see ListCases).
GetSnapshot ==
    LET ids == DOMAIN db.surgery_cases
        failing == {i \in ids : RefreshRaises(row_to_case(db, i), now)}
        Newer(i, j) == TextLt(db.surgery_cases[j].created_at, db.surgery_cases[i].created_at)
    IN IF failing = {}
       THEN \E out \in {get_snapshot(db, now)} :
               Becomes(Out(out.db, Ret("get_snapshot", NULL, out.snapshot, "returned")))
       ELSE \E f \in failing :
              /\ \A g \in failing : ~Newer(g, f)
              /\ \E tied \in SUBSET {i \in ids \ failing :
                                       db.surgery_cases[i].created_at = db.surgery_cases[f].created_at} :
                   Becomes(Out(RefreshAndPersist(db, {i \in ids : Newer(i, f)} \cup tied, now),
                               Ret("get_snapshot", NULL, "TypeError", "raised")))

CreateMonitorCase == CreateCaseFrom(CaseIds, ReqTimes, BOOLEAN, {GeminiNotAvailable}, UtcZone)

NextMonitor ==
    \/ CreateMonitorCase
    \/ ScheduleCase
    \/ DeleteCase
    \/ GetSnapshot
    \/ Tick

SpecMonitor == Init /\ [][NextMonitor]_vars

\* ------------------------------------------------------- time stamps
\* Cases are created on a server in UTC or behind it, then read and scheduled
\* as the clock advances.
CreateStampedCase == CreateCaseFrom(CaseIds, ReqTimes, {FALSE}, {GeminiNotAvailable}, Zones)

NextStamp ==
    \/ CreateStampedCase
    \/ GetCase
    \/ ListCases
    \/ ScheduleCase
    \/ Tick

SpecStamp == Init /\ [][NextStamp]_vars

\* -------------------------------------------------- the order of the tasks
\* A case is saved with three tasks, given in any order of their ids and
\* with any of these bounds, and is read back.
OrderWindows ==
    { <<None, None>>,
      <<Dt(Step, FALSE), None>>,
      <<Dt(Step, FALSE), Dt(2 * Step, FALSE)>>,
      <<Dt(2 * Step, FALSE), Dt(3 * Step, FALSE)>> }

OrderTaskLists(case_id) ==
    { [i \in 1..n |-> StoreTask(generate_task_id(case_id, ids[i]), case_id, "pending",
                                NULL, windows[i])] :
      n \in {Len(XSuffix)}, ids \in {p \in [1..Len(XSuffix) -> {XSuffix[k] : k \in 1..Len(XSuffix)}] :
                                         \A i, j \in 1..Len(XSuffix) : i # j => p[i] # p[j]},
      windows \in [1..Len(XSuffix) -> OrderWindows] }

AddOrderCase ==
    \E tasks \in OrderTaskLists(CaseNames[1]) :
        Becomes(Out(add_case(db, [KbCase(CaseNames[1], <<>>, now) EXCEPT !.tasks = tasks]),
                    Ret("add_case", CaseNames[1], NULL, "saved")))

NextOrder ==
    \/ AddOrderCase
    \/ ReadCase
    \/ Tick

SpecOrder == Init /\ [][NextOrder]_vars

\* ------------------------------------------------- scheduling once more
\* As many cases as rooms, for one and the same time, are created, scheduled
\* any number of times and deleted.  The first case may get an external plan
\* of two tasks of no duration, an hour apart.
PointPlan == <<Prop(0, 0), Prop(Step, 0)>>
MoveCaseIds == {CaseNames[i] : i \in 1..Len(Rooms)}

CreatePointCase == CreateCaseFrom({CaseNames[1]}, {2 * Step}, {FALSE}, {PointPlan}, UtcZone)
CreateMoveCase == CreateCaseFrom(MoveCaseIds, {2 * Step}, {FALSE}, {GeminiNotAvailable}, UtcZone)
ScheduleMoveCase == ScheduleCaseIn(MoveCaseIds)
DeleteMoveCase == DeleteCaseIn(DOMAIN db.surgery_cases)

NextMove ==
    \/ CreatePointCase
    \/ CreateMoveCase
    \/ ScheduleMoveCase
    \/ DeleteMoveCase

SpecMove == Init /\ [][NextMove]_vars

\* ------------------------------------------------------ reads as time passes
\* Cases with the deterministic plan or with an external plan of two tasks
\* an hour apart are read while the clock advances hour by hour.
GapPlan == <<Prop(0 - Step, Step), Prop(Step, Step)>>

CreateHourlyCase == CreateCaseFrom(CaseIds, {Step}, {FALSE}, {GapPlan, GeminiNotAvailable}, UtcZone)

HourTick ==
    /\ clock < MaxHours * Step
    /\ clock' = clock + Step
    /\ last' = Ret("tick", NULL, NULL, NULL)
    /\ UNCHANGED <<db, pending, notifier, notifications, twin>>

NextHourly ==
    \/ CreateHourlyCase
    \/ GetCase
    \/ ListCases
    \/ HourTick

SpecHourly == Init /\ [][NextHourly]_vars

\* ------------------------------------------------- rooms held as time passes
\* Cases are created, scheduled, read and deleted and rooms are asked for
\* while the clock runs past the end of the tasks.
CreateHeldCase ==
    CreateCaseFrom(CaseIds, {Step}, {FALSE}, {<<Prop(0, Step)>>, GeminiNotAvailable}, UtcZone)

NextHold ==
    \/ CreateHeldCase
    \/ GetCase
    \/ ScheduleCase
    \/ DeleteCase
    \/ FindAvailableOr
    \/ Tick

SpecHold == Init /\ [][NextHold]_vars

\* ------------------------------------------------------- rooms given back
\* KnowledgeBase.delete_case, with the room the deleted rows held kept in the
\* record of the call.
DeleteCaseRecorded ==
    \E case_id \in CaseIds :
        LET held == {t.or_room_id : t \in {u \in db.surgery_tasks : u.case_id = case_id}} \ {NULL}
        IN Becomes(Out(delete_case(db, case_id),
                       Ret("delete_case", case_id, NULL,
                           IF held = {} THEN NULL ELSE CHOOSE r \in held : TRUE)))

NextRelease ==
    \/ CreateNaiveCase
    \/ ScheduleCase
    \/ DeleteCaseRecorded
    \/ FindAvailableOr

SpecRelease == Init /\ [][NextRelease]_vars

\* ------------------------------------------------- messages put on the bus
\* Messages of any performative and content type, with or without a case id,
\* are sent to the planner, the executor, the notifier and to the roles for
\* which the context registers no agent.
BusReceivers == {"planner", "executor", "notifier", "ui", "knowledge_base"}
BusPerformatives == {"REQUEST", "INFORM"}
BusTypes == {"NEW_CASE", "SCHEDULE_CASE", "STATUS"}

BusMessages ==
    {build_message(performative, "ui", receiver, AgentProtocols,
                   [type |-> type, case_id |-> case_id,
                    payload |-> Payload("elective", <<Step, 0>>)]) :
        performative \in BusPerformatives, receiver \in BusReceivers,
        type \in BusTypes, case_id \in {"", CaseNames[1]}}

\* What the call of MessageBus.send came to.
SendLog(r) == IF r.raised # NULL THEN "raised" ELSE IF r.answered THEN "answered" ELSE "none"

\* MessageBus.send called with a message.
SendMessage ==
    \E message \in BusMessages, case_id \in CaseIds :
        /\ ( /\ message.receiver = "planner"
             /\ message.performative = "REQUEST"
             /\ message.content.type = "NEW_CASE" ) => case_id \notin DOMAIN db.surgery_cases
        /\ (message.receiver = "notifier" /\ message.performative = "INFORM")
              => Len(notifier) < MaxBusNotes
        /\ \E r \in {send(db, notifier, message, case_id, GeminiNotAvailable, now, utcnow(0))} :
              Responds("send", message, NULL, SendLog(r), r.db, r.notifier, notifications)

NextBus ==
    \/ SendMessage
    \/ Tick

SpecBus == Init /\ [][NextBus]_vars

\* =================================================================== claims
TaskRows == db.surgery_tasks
RowTimed(t) == t.scheduled_start # None /\ t.scheduled_end # None
StartOf(t) == Wall(str_to_dt(t.scheduled_start))
EndOf(t) == Wall(str_to_dt(t.scheduled_end))
HasRoom(t) == t.or_room_id # NULL

\* The overlap predicate on two stored tasks: a.start < b.end AND a.end > b.start.
Overlap(a, b) == StartOf(a) < EndOf(b) /\ EndOf(a) > StartOf(b)

SameRoomPairs ==
    {p \in TaskRows \X TaskRows :
        /\ p[1] # p[2]
        /\ HasRoom(p[1])
        /\ p[1].or_room_id = p[2].or_room_id
        /\ RowTimed(p[1])
        /\ RowTimed(p[2])}

\* C1 as stated: no two distinct stored tasks with both bounds set that are
\* assigned the same room overlap, two tasks of one case included.
C1_NoOverlapInRoom == \A p \in SameRoomPairs : ~Overlap(p[1], p[2])

\* C1, amended: two distinct stored tasks with both bounds set that share a
\* room overlap only if they belong to the same case and that case's plan came
\* from the external suggestion (task ids {case_id}-T{i}).
C1_OverlapOnlyInsideExternalPlan ==
    \A p \in SameRoomPairs :
        Overlap(p[1], p[2]) =>
            /\ p[1].case_id = p[2].case_id
            /\ p[1].id[2] \in {TSuffix[i] : i \in 1..Len(TSuffix)}
            /\ p[2].id[2] \in {TSuffix[i] : i \in 1..Len(TSuffix)}

\* Two cases hold rooms, one of them with the deterministic plan in one room
\* and one with an external plan whose tasks overlap each other.
C1_Witness ==
    /\ \E p \in SameRoomPairs : Overlap(p[1], p[2]) /\ p[1].case_id = p[2].case_id
    /\ \E p \in SameRoomPairs : p[1].id[2] = "PRE" /\ p[2].id[2] = "SURG"

\* C2: no task of one case overlaps a task of a different case that is
\* assigned the same room.
C2_NoOverlapAcrossCases ==
    \A p \in SameRoomPairs : p[1].case_id # p[2].case_id => ~Overlap(p[1], p[2])

\* Two cases with overlapping tasks both hold a room.
C2_Witness ==
    \E a \in TaskRows, b \in TaskRows :
        /\ a.case_id # b.case_id
        /\ HasRoom(a) /\ HasRoom(b)
        /\ RowTimed(a) /\ RowTimed(b)
        /\ Overlap(a, b)

\* The declaration order of the rooms.
RoomOrder == <<"OR-1", "OR-2", "OR-3", "OR-4", "OR-5">>
RoomSet == {RoomOrder[i] : i \in 1..Len(RoomOrder)}

\* Room r holds, in database d, a task with both bounds set that satisfies
\* existing.start < e AND existing.end > s.
BusyIn(d, r, s, e) ==
    \E t \in d.surgery_tasks :
        /\ t.or_room_id = r
        /\ RowTimed(t)
        /\ StartOf(t) < e
        /\ EndOf(t) > s

Busy(r, s, e) == BusyIn(db, r, s, e)

\* The envelope [min start, max end] of the timed tasks stored for a case.
RowsOf(d, id) == {t \in d.surgery_tasks : t.case_id = id}
TimedRowsOf(d, id) == {t \in RowsOf(d, id) : RowTimed(t)}
EnvStart(d, id) == Min({StartOf(t) : t \in TimedRowsOf(d, id)})
EnvEnd(d, id) == Max({EndOf(t) : t \in TimedRowsOf(d, id)})

Scheduled == last.op = "schedule_case" /\ last.log \in RoomSet
Found == last.op = "find_available_or"

\* C3: find_available_or never returns a room that holds a stored task with
\* both bounds set whose interval satisfies existing.start < end AND
\* existing.end > start.
C3_ReturnedRoomIsFree ==
    (Found /\ last.ret # NULL) => ~Busy(last.ret, last.arg[1], last.arg[2])

\* A call returned a room other than the first one: OR-1 held a conflicting task.
C3_Witness ==
    /\ Found
    /\ last.ret \in RoomSet \ {"OR-1"}
    /\ Busy("OR-1", last.arg[1], last.arg[2])

\* ret is the first-fit answer for window [s, e] on the tasks stored in d.
IsFirstFit(d, ret, s, e) ==
    /\ (ret = NULL) <=> (\A i \in 1..Len(RoomOrder) : BusyIn(d, RoomOrder[i], s, e))
    /\ ret # NULL =>
          \E i \in 1..Len(RoomOrder) :
              /\ RoomOrder[i] = ret
              /\ ~BusyIn(d, ret, s, e)
              /\ \A j \in 1..(i - 1) : BusyIn(d, RoomOrder[j], s, e)

\* C4: room selection is first-fit in the order OR-1 .. OR-5: a call returns
\* the lowest-ordered room without a conflicting task and none exactly when
\* all five conflict; scheduling a stored case with a timed task gives it the
\* first-fit room for its envelope on the tasks stored before the call, and no
\* room exactly when all five conflict.
C4_FirstFit ==
    [][ /\ last'.op = "find_available_or" =>
              IsFirstFit(db', last'.ret, last'.arg[1], last'.arg[2])
        /\ ( /\ last'.op = "schedule_case"
             /\ last'.arg \in DOMAIN db.surgery_cases
             /\ TimedRowsOf(db, last'.arg) # {} )
           => /\ last'.log \in RoomSet \cup {"no_room"}
              /\ IsFirstFit(db, IF last'.log = "no_room" THEN NULL ELSE last'.log,
                            EnvStart(db, last'.arg), EnvEnd(db, last'.arg))
              /\ last'.log \in RoomSet =>
                    \A t \in RowsOf(db', last'.arg) : t.or_room_id = last'.log ]_vars

\* Five cases hold OR-1 .. OR-5 and a sixth, overlapping them, got no room.
C4_Witness ==
    /\ last.op = "schedule_case"
    /\ last.log = "no_room"
    /\ \A t \in RowsOf(db, last.arg) : ~HasRoom(t)
    /\ \A r \in RoomSet : \E t \in TaskRows : t.or_room_id = r
    /\ Cardinality(DOMAIN db.surgery_cases) = 6

\* C5: the tasks of a stored case all carry the same room id or all carry
\* none, and a successful schedule_case leaves every task of the case, timed
\* or not, with the room it chose and status scheduled.
C5_WholeCaseAssignment ==
    /\ \A a \in TaskRows, b \in TaskRows :
          a.case_id = b.case_id => a.or_room_id = b.or_room_id
    /\ Scheduled =>
          /\ RowsOf(db, last.arg) # {}
          /\ \A t \in RowsOf(db, last.arg) :
                t.or_room_id = last.log /\ t.status = "scheduled"

\* A case with a timed and an untimed task was scheduled.
C5_Witness ==
    /\ Scheduled
    /\ \E t \in RowsOf(db, last.arg) : RowTimed(t)
    /\ \E t \in RowsOf(db, last.arg) : ~RowTimed(t) /\ HasRoom(t)

\* C6: the room schedule_case assigns holds no task of another case that
\* overlaps the case's envelope [min start, max end], gaps included.
C6_EnvelopeIsFree ==
    Scheduled =>
        \A t \in TaskRows :
            (t.case_id # last.arg /\ t.or_room_id = last.log /\ RowTimed(t)) =>
                ~(StartOf(t) < EnvEnd(db, last.arg) /\ EndOf(t) > EnvStart(db, last.arg))

\* A case was kept out of a room by a task of another case that lies in a
\* gap of its envelope and overlaps none of its own tasks.
C6_Witness ==
    /\ Scheduled
    /\ \E t \in TaskRows :
          /\ t.case_id # last.arg
          /\ HasRoom(t)
          /\ RowTimed(t)
          /\ t.or_room_id # last.log
          /\ StartOf(t) < EndOf(t)
          /\ StartOf(t) < EnvEnd(db, last.arg)
          /\ EndOf(t) > EnvStart(db, last.arg)
          /\ \A u \in TimedRowsOf(db, last.arg) : ~Overlap(t, u)

Reservation(t) == <<t.id, t.or_room_id, t.scheduled_start, t.scheduled_end>>
Reservations(rows) == {Reservation(t) : t \in rows}

\* C7: when every room conflicts with the envelope of a stored case,
\* schedule_case returns the case without raising and leaves the room id,
\* start and end of each of its tasks as stored, none partially assigned.
C7_NoRoomLeavesCase ==
    [][ ( /\ last'.op = "schedule_case"
          /\ last'.arg \in DOMAIN db.surgery_cases
          /\ TimedRowsOf(db, last'.arg) # {}
          /\ \A r \in RoomSet :
                BusyIn(db, r, EnvStart(db, last'.arg), EnvEnd(db, last'.arg)) )
        => ( /\ last'.ret = last'.arg
             /\ Reservations(RowsOf(db', last'.arg)) = Reservations(RowsOf(db, last'.arg))
             /\ Cardinality({t.or_room_id : t \in RowsOf(db', last'.arg)}) = 1 ) ]_vars

\* A schedule attempt found no room; the case holds none.
C7_Witness ==
    /\ last.op = "schedule_case"
    /\ last.log = "no_room"
    /\ last.ret = last.arg
    /\ \A t \in RowsOf(db, last.arg) : ~HasRoom(t)

\* C8: schedule_case on an absent id returns none, on a case without tasks or
\* without a task that has both bounds it returns the case; in all three no
\* task anywhere gets or changes a room id or a window.
C8_NoOpSchedule ==
    [][ last'.op = "schedule_case" =>
          /\ last'.arg \notin DOMAIN db.surgery_cases =>
                /\ last'.ret = NULL
                /\ Reservations(db'.surgery_tasks) = Reservations(db.surgery_tasks)
          /\ (last'.arg \in DOMAIN db.surgery_cases /\ RowsOf(db, last'.arg) = {}) =>
                /\ last'.ret = last'.arg
                /\ Reservations(db'.surgery_tasks) = Reservations(db.surgery_tasks)
          /\ ( /\ last'.arg \in DOMAIN db.surgery_cases
               /\ RowsOf(db, last'.arg) # {}
               /\ TimedRowsOf(db, last'.arg) = {} ) =>
                /\ last'.ret = last'.arg
                /\ Reservations(db'.surgery_tasks) = Reservations(db.surgery_tasks) ]_vars

\* schedule_case was called on a case none of whose tasks has both bounds,
\* while another case holds a room.
C8_Witness ==
    /\ last.op = "schedule_case"
    /\ last.ret = last.arg
    /\ RowsOf(db, last.arg) # {}
    /\ TimedRowsOf(db, last.arg) = {}
    /\ \A t \in RowsOf(db, last.arg) : ~HasRoom(t)
    /\ \E t \in TaskRows : HasRoom(t)

\* C9: of the SCHEDULE_CASE requests that are in flight together, no two for
\* different cases end up holding the same room with overlapping tasks.
C9_NoDoubleBooking ==
    \A c1 \in DOMAIN db.surgery_cases, c2 \in DOMAIN db.surgery_cases :
        c1 # c2 =>
            \A a \in TimedRowsOf(db, c1), b \in TimedRowsOf(db, c2) :
                (HasRoom(a) /\ a.or_room_id = b.or_room_id) => ~Overlap(a, b)

\* Two requests for overlapping cases were in flight together and both were
\* served: each case holds a room.
C9_Witness ==
    \E c1 \in pending.done, c2 \in pending.done :
        /\ c1 # c2
        /\ \E a \in TimedRowsOf(db, c1), b \in TimedRowsOf(db, c2) :
              HasRoom(a) /\ HasRoom(b) /\ Overlap(a, b)

\* The status the refresh rule gives a timed task at wall time n.
RuleStatus(t, n) ==
    IF n >= EndOf(t) THEN "done"
    ELSE IF StartOf(t) <= n /\ n < EndOf(t) THEN "in_progress"
    ELSE "scheduled"

\* C10: after a read that returns a case, each of its tasks with both bounds
\* has the status the rule gives for the current time, whatever it was
\* before, and a task lacking a bound has the status it had.
C10_RefreshRule ==
    [][ \A t2 \in db'.surgery_tasks :
          ( \/ (last'.op = "get_case" /\ last'.arg = t2.case_id /\ last'.ret = t2.case_id)
            \/ (last'.op = "list_cases" /\ last'.ret = "ok") )
          => \E t1 \in db.surgery_tasks :
                /\ t1.id = t2.id
                /\ Reservation(t1) = Reservation(t2)
                /\ t2.status = IF RowTimed(t2) THEN RuleStatus(t2, clock') ELSE t1.status ]_vars

\* A read returned a case with a task in progress and a cancelled task that
\* lacks a bound.
C10_Witness ==
    /\ last.op = "get_case"
    /\ last.ret = last.arg
    /\ \E t \in RowsOf(db, last.arg) : RowTimed(t) /\ t.status = "in_progress"
    /\ \E t \in RowsOf(db, last.arg) : ~RowTimed(t) /\ t.status = "cancelled"

\* The case status the rule gives at time n for the rows stored for a case.
CaseRuleStatus(d, id, n) ==
    IF \E t \in TimedRowsOf(d, id) : StartOf(t) <= n /\ n < EndOf(t) THEN "in_progress"
    ELSE IF RowsOf(d, id) # {} /\ \A t \in TimedRowsOf(d, id) : EndOf(t) <= n THEN "completed"
    ELSE "planned"

\* The cases a read has just returned.
ReadIds ==
    IF last.op = "get_case" /\ last.ret = last.arg THEN {last.arg}
    ELSE IF last.op = "list_cases" /\ last.ret = "ok" THEN DOMAIN db.surgery_cases
    ELSE {}

\* C11: after a read, the case is in_progress if the window of one of its
\* timed tasks contains now; otherwise completed if it has a task and every
\* timed task has ended; otherwise planned.  A case without tasks is never
\* completed.
C11_CaseRefreshRule ==
    \A id \in ReadIds :
        /\ db.surgery_cases[id].status = CaseRuleStatus(db, id, clock)
        /\ RowsOf(db, id) = {} => db.surgery_cases[id].status # "completed"

\* A read returned a completed case whose timed tasks have all ended while
\* another stored case has no task; and a read can return a case in progress.
C11_Witness ==
    /\ last.op = "get_case"
    /\ last.ret = last.arg
    /\ db.surgery_cases[last.arg].status = "completed"
    /\ TimedRowsOf(db, last.arg) # {}
    /\ \E id \in DOMAIN db.surgery_cases : RowsOf(db, id) = {} /\ db.surgery_cases[id].status = "planned"

\* The cases a read of the store has just returned.
Returned ==
    IF last.op = "get_case" /\ last.log = "returned" THEN {last.ret}
    ELSE IF last.op = "list_cases" /\ last.log = "returned"
         THEN {last.ret[i] : i \in 1..Len(last.ret)}
    ELSE {}

\* C12: when get_case or list_cases returns, the committed store holds, for
\* every returned case and each of its tasks, the status that was returned.
C12_ReadsPersist ==
    \A case \in Returned :
        /\ case.id \in DOMAIN Committed(db).surgery_cases
        /\ Committed(db).surgery_cases[case.id].status = case.status
        /\ \A i \in 1..Len(case.tasks) :
              \E t \in RowsOf(Committed(db), case.id) :
                  t.id = case.tasks[i].id /\ t.status = case.tasks[i].status
        /\ Tables(db) = Committed(db)

\* A read returned a case in progress that was stored as new with a failed
\* task.
C12_Witness ==
    /\ last.op = "get_case"
    /\ last.log = "returned"
    /\ last.ret.status = "in_progress"
    /\ \E i \in 1..Len(last.ret.tasks) :
          last.ret.tasks[i].status = "in_progress" /\ last.ret.tasks[i].or_room_id = "OR-1"

\* C13: a get_case that follows a get_case of the same case with no clock
\* advance in between returns the same case status and the same status for
\* every task.
C13_ReadIdempotent ==
    [][ ( /\ last.op = "get_case" /\ last.log = "returned"
          /\ last'.op = "get_case" /\ last'.arg = last.arg
          /\ clock' = clock )
        => /\ last'.log = "returned"
           /\ last'.ret.status = last.ret.status
           /\ Len(last'.ret.tasks) = Len(last.ret.tasks)
           /\ \A i \in 1..Len(last.ret.tasks) :
                 /\ last'.ret.tasks[i].id = last.ret.tasks[i].id
                 /\ last'.ret.tasks[i].status = last.ret.tasks[i].status ]_vars

\* A read at a time after the window returned a completed case with a done
\* task and a cancelled task that lacks its bounds.
C13_Witness ==
    /\ last.op = "get_case"
    /\ last.log = "returned"
    /\ last.ret.status = "completed"
    /\ \E i \in 1..Len(last.ret.tasks) : last.ret.tasks[i].status = "done"
    /\ \E i \in 1..Len(last.ret.tasks) : last.ret.tasks[i].status = "cancelled"

\* What of a task the store must hand back as it was given.
TaskContent(t) == <<t.id, t.case_id, t.name, t.or_room_id, t.scheduled_start, t.scheduled_end>>
TaskContents(case) == {TaskContent(case.tasks[i]) : i \in 1..Len(case.tasks)}

RowContent(r) ==
    <<r.id, r.case_id, r.name, r.status, r.or_room_id,
      str_to_dt(r.scheduled_start), str_to_dt(r.scheduled_end)>>
GivenContent(t) ==
    <<t.id, t.case_id, t.name, t.status, t.or_room_id, t.scheduled_start, t.scheduled_end>>

\* C15: a successful add_case of case c leaves c.id stored with c's fields
\* and with exactly the tasks of c, and every other case with its row and
\* its tasks as they were; add_case raises only for a task id that c has
\* twice or that is stored under another case, so not for repeating a call.
C15_Upsert ==
    [][ last'.op = "add_case" =>
          IF last'.log = "saved"
          THEN /\ DOMAIN db'.surgery_cases = DOMAIN db.surgery_cases \cup {last'.arg.id}
               /\ db'.surgery_cases[last'.arg.id].patient_name = last'.arg.patient_name
               /\ db'.surgery_cases[last'.arg.id].status = last'.arg.status
               /\ {RowContent(r) : r \in RowsOf(db', last'.arg.id)}
                     = {GivenContent(last'.arg.tasks[i]) : i \in 1..Len(last'.arg.tasks)}
               /\ \A id \in DOMAIN db.surgery_cases \ {last'.arg.id} :
                     /\ db'.surgery_cases[id] = db.surgery_cases[id]
                     /\ RowsOf(db', id) = RowsOf(db, id)
          ELSE \/ \E i, j \in 1..Len(last'.arg.tasks) :
                     i # j /\ last'.arg.tasks[i].id = last'.arg.tasks[j].id
               \/ \E i \in 1..Len(last'.arg.tasks) : \E t \in db.surgery_tasks :
                     t.id = last'.arg.tasks[i].id /\ t.case_id # last'.arg.id ]_vars

\* A stored case with two tasks was replaced by a case with one task while
\* another case keeps a task.
C15_Witness ==
    /\ last.op = "add_case"
    /\ last.log = "saved"
    /\ Len(last.arg.tasks) = 1
    /\ last.arg.patient_name = "Ana Ruiz"
    /\ Cardinality(RowsOf(db, last.arg.id)) = 1
    /\ \E id \in DOMAIN db.surgery_cases : id # last.arg.id /\ Cardinality(RowsOf(db, id)) = 2

\* C16 as stated: an add_case that fails leaves the tables the connection
\* sees as they were, and recording a notification afterwards commits
\* nothing of what the failed add_case wrote.
C16_FailedAddLeavesNoTrace ==
    [][ /\ (last'.op = "add_case" /\ last'.log = "raised") => Tables(db') = Tables(db)
        /\ last'.op = "add_notification" => Committed(db') = Committed(db) ]_vars

\* C17: delete_case removes the row of the case and the rows of its tasks
\* and nothing else, changes nothing when the id is absent, and no other
\* operation makes a stored case disappear.
C17_DeleteCase ==
    [][ /\ last'.op = "delete_case" =>
              /\ DOMAIN db'.surgery_cases = DOMAIN db.surgery_cases \ {last'.arg}
              /\ \A id \in DOMAIN db'.surgery_cases : db'.surgery_cases[id] = db.surgery_cases[id]
              /\ db'.surgery_tasks = {t \in db.surgery_tasks : t.case_id # last'.arg}
              /\ last'.arg \notin DOMAIN db.surgery_cases => db' = db
        /\ last'.op # "delete_case" => DOMAIN db.surgery_cases \subseteq DOMAIN db'.surgery_cases ]_vars

\* A delete has left one case in the store, which holds a room.
C17_Witness ==
    /\ last.op = "delete_case"
    /\ last.arg \notin DOMAIN db.surgery_cases
    /\ \E t \in db.surgery_tasks : HasRoom(t)
    /\ Cardinality(DOMAIN db.surgery_cases) = 1

\* C18 as stated: whatever the external suggestion does, create_case
\* succeeds, and when the suggestion failed the stored case carries the
\* three tasks PRE, SURG and POST.
C18_SuggestionFailureFallsBack ==
    last.op = "create_case" =>
        /\ last.ret = last.arg
        /\ last.arg \in DOMAIN db.surgery_cases
        /\ last.log = "deterministic" =>
              {t.id[2] : t \in RowsOf(db, last.arg)} = {"PRE", "SURG", "POST"}

\* A stored task row as id suffix, start, end, offset marks, status and room.
PlanRow(r) ==
    <<r.id, r.case_id, StartOf(r), EndOf(r), r.scheduled_start[2], r.scheduled_end[2],
      r.status, r.or_room_id>>

\* C19: a case created with the deterministic plan for requested time t has
\* exactly the tasks PRE over [t-60, t), SURG over [t, t+120) and POST over
\* [t+120, t+180), each with status scheduled and without a room.
C19_DeterministicPlan ==
    [][ (last'.op = "create_case" /\ last'.log = "deterministic") =>
          LET id == last'.arg
              req == db'.surgery_cases[id].requested_datetime
              t == req[1]
              Row(sfx, s, e) == <<generate_task_id(id, sfx), id, s, e, req[2], req[2],
                                  "scheduled", NULL>>
          IN /\ Cardinality(RowsOf(db', id)) = 3
             /\ {PlanRow(r) : r \in RowsOf(db', id)}
                   = { Row("PRE", t - 60, t), Row("SURG", t, t + 120),
                       Row("POST", t + 120, t + 180) } ]_vars

\* Cases were created with the deterministic plan after a reply whose tasks
\* could not be used, one of them for a requested time with an offset.
C19_Witness ==
    /\ last.op = "create_case"
    /\ last.log = "deterministic"
    /\ Cardinality(DOMAIN db.surgery_cases) = 2
    /\ \A id \in DOMAIN db.surgery_cases : \E r \in RowsOf(db, id) : r.id[2] = "SURG"
    /\ \E id \in DOMAIN db.surgery_cases : db.surgery_cases[id].requested_datetime[2] = 1

\* C20 as stated: every stored task of an external plan ({case_id}-T{i}) has
\* its start before its end.
C20_ExternalTasksStartBeforeEnd ==
    \A r \in TaskRows :
        (r.id[2] \in {TSuffix[i] : i \in 1..Len(TSuffix)} /\ RowTimed(r)) => StartOf(r) < EndOf(r)

\* A NEW_CASE request has just stored its case.
Created == last.op = "create_case" /\ last.ret = last.arg

\* The two bounds of a stored task are both set or both absent.
BothOrNeither(t) == (t.scheduled_start = None) <=> (t.scheduled_end = None)

\* C21: every case created through a NEW_CASE request is persisted with status
\* planned and with at least one task; no stored case has status new, whether
\* just created or read and refreshed since, and every stored task has its
\* start and end both set or both absent.
C21_CreatedPlannedWithTasks ==
    /\ [](\A id \in DOMAIN db.surgery_cases :
            /\ db.surgery_cases[id].status # "new"
            /\ RowsOf(db, id) # {}
            /\ \A t \in RowsOf(db, id) : BothOrNeither(t))
    /\ [][Created' => db'.surgery_cases[last'.arg].status = "planned"]_vars

\* A case was created with the fallback plan while another one, created from
\* an external plan, has been read and refreshed to in_progress.
C21_Witness ==
    /\ Created
    /\ last.log = "deterministic"
    /\ Cardinality(RowsOf(db, last.arg)) = 3
    /\ \E id \in DOMAIN db.surgery_cases :
          /\ db.surgery_cases[id].status = "in_progress"
          /\ \E t \in RowsOf(db, id) : t.id[2] = "T1"

\* The envelope e is an INFORM of the given type from agent to the sender of
\* the request.
InformTo(e, type, agent, request_sender) ==
    /\ e.performative = "INFORM"
    /\ e.content.type = type
    /\ e.sender = agent
    /\ e.receiver = request_sender

\* The case record c is what database d stores for its id.
PersistedAs(d, c) ==
    /\ c.id \in DOMAIN d.surgery_cases
    /\ d.surgery_cases[c.id] = CaseRow(c)
    /\ RowsOf(d, c.id) = {TaskRow(c.tasks[i]) : i \in 1..Len(c.tasks)}

NoRoomFor(d, id) ==
    /\ TimedRowsOf(d, id) # {}
    /\ \A i \in 1..Len(RoomOrder) : BusyIn(d, RoomOrder[i], EnvStart(d, id), EnvEnd(d, id))

\* C23: when a schedule request finds no room free for a stored case that
\* holds no room, the endpoint answers with an error: neither a redirect to
\* the case nor a CASE_SCHEDULED answer, and no notification is recorded.
C23_NoRoomIsAnError ==
    [][(/\ last'.op \in {"schedule_case_from_form", "api_schedule_case"}
        /\ last'.arg \in DOMAIN db.surgery_cases
        /\ \A t \in RowsOf(db, last'.arg) : ~HasRoom(t)
        /\ NoRoomFor(db, last'.arg)) =>
            /\ last'.ret.status_code \notin {200, 303}
            /\ notifier' = notifier]_vars

\* C24: a request that reads or schedules a case that is not stored raises
\* nothing, leaves the store as it is, and is answered with 404.
C24_AbsentCaseIsNotFound ==
    [][(/\ last'.op \in {"case_detail", "schedule_case_from_form", "api_schedule_case"}
        /\ last'.arg \notin DOMAIN db.surgery_cases) =>
            /\ last'.log # "raised"
            /\ db' = db
            /\ last'.ret.status_code = 404]_vars

\* A payload that lacks one of the fields a case needs, names a priority that
\* does not exist, or gives a requested time that is no date.
BadPayload(payload) ==
    \/ \E f \in {"patient_name", "procedure_name", "requested_datetime"} : f \notin DOMAIN payload
    \/ "priority" \in DOMAIN payload /\ payload.priority \notin {"emergency", "urgent", "elective"}
    \/ "requested_datetime" \in DOMAIN payload /\ payload.requested_datetime[2] = 2

CreateRequest == last.op \in {"create_case_from_form", "api_create_case"}

\* C25: a malformed case payload is refused as a validation failure, by the
\* route (422) or by the ValidationError of NewCaseInput, on the form path and
\* on the JSON path: no case and no task is stored and no notification is
\* recorded.
C25_MalformedPayloadRejected ==
    [][(CreateRequest' /\ BadPayload(last'.arg)) =>
          /\ \/ last'.ret.status_code = 422
             \/ last'.log = "raised" /\ last'.ret.body = "ValidationError"
          /\ db' = db
          /\ notifier' = notifier
          /\ notifications' = notifications]_vars

\* With a case stored and a notification recorded, the form sent an unknown
\* priority and the planner refused it.
C25_Witness ==
    /\ last.op = "create_case_from_form"
    /\ "priority" \in DOMAIN last.arg
    /\ last.arg.priority = "high"
    /\ last.ret.body = "ValidationError"
    /\ DOMAIN db.surgery_cases # {}
    /\ Len(notifier) = 1

\* What a database says about rooms and statuses: the status of every case
\* and the status and room of every task.
RoomsAndStatuses(d) ==
    [cases |-> [id \in DOMAIN d.surgery_cases |-> d.surgery_cases[id].status],
     tasks |-> {[id |-> t.id, status |-> t.status, or_room_id |-> t.or_room_id] :
                   t \in d.surgery_tasks}]

Extends(before, after) ==
    /\ Len(after) >= Len(before)
    /\ SubSeq(after, 1, Len(before)) = before

\* C27: a recorded notification is never altered or removed, and the
\* notification endpoint returns the recorded notifications most recent
\* first, at most NOTIFICATION_LIMIT of them.
C27_AppendOnlyNewestFirst ==
    /\ [][Extends(notifier, notifier') /\ Extends(notifications, notifications')]_vars
    /\ [](last.op = "api_notifications" =>
            last.ret.body = Limit(Reverse(notifier), NOTIFICATION_LIMIT))

\* The sum of the values of a function with a finite domain.
RECURSIVE SumOf(_)
SumOf(f) ==
    IF DOMAIN f = {} THEN 0
    ELSE LET x == CHOOSE x \in DOMAIN f : TRUE
         IN f[x] + SumOf([y \in DOMAIN f \ {x} |-> f[y]])

\* C28: a snapshot that the monitor returns reports total_cases equal to the
\* number of stored cases, 5 rooms, and for every status the number of cases
\* that the refresh rule puts in that status now, the counts adding up to
\* total_cases; after it every stored case has its refreshed status.
C28_Snapshot ==
    [][(last'.op = "get_snapshot" /\ last'.log = "returned") =>
          LET ids == DOMAIN db.surgery_cases
              snapshot == last'.ret
          IN /\ snapshot.total_cases = Cardinality(ids)
             /\ snapshot.total_or_rooms = 5
             /\ \A s \in SurgeryStatus :
                   LET n == Cardinality({id \in ids : CaseRuleStatus(db, id, clock) = s})
                   IN IF n = 0 THEN s \notin DOMAIN snapshot.cases_by_status
                      ELSE /\ s \in DOMAIN snapshot.cases_by_status
                           /\ snapshot.cases_by_status[s] = n
             /\ SumOf(snapshot.cases_by_status) = snapshot.total_cases
             /\ DOMAIN db'.surgery_cases = ids
             /\ \A id \in ids :
                   db'.surgery_cases[id].status = CaseRuleStatus(db, id, clock)]_vars

\* A snapshot of two cases counted one in progress and one completed, and
\* the completed status is stored.
C28_Witness ==
    /\ last.op = "get_snapshot"
    /\ last.log = "returned"
    /\ last.ret.total_cases = 2
    /\ DOMAIN last.ret.cases_by_status = {"in_progress", "completed"}
    /\ \E id \in DOMAIN db.surgery_cases : db.surgery_cases[id].status = "completed"

\* The stored case id is new, or its row or one of its task rows differs
\* from what was stored before the step.
Mutated(id) ==
    \/ id \notin DOMAIN db.surgery_cases
    \/ db'.surgery_cases[id] # db.surgery_cases[id]
    \/ RowsOf(db', id) # RowsOf(db, id)

C30_RefreshIsTotal ==
    last.op \in {"get_case", "list_cases"} => last.ret # "TypeError"

\* Task a stands before task b in a list ordered by scheduled_start ascending
\* and then by id ascending, the tasks without scheduled_start first.
InOrder(a, b) ==
    IF a.scheduled_start = None
    THEN b.scheduled_start # None \/ SuffixRank(a.id[2]) < SuffixRank(b.id[2])
    ELSE /\ b.scheduled_start # None
         /\ \/ Wall(a.scheduled_start) < Wall(b.scheduled_start)
            \/ /\ Wall(a.scheduled_start) = Wall(b.scheduled_start)
               /\ SuffixRank(a.id[2]) < SuffixRank(b.id[2])

\* C31: the tasks of a case that get_case returns are ordered by
\* scheduled_start ascending and then by id ascending, and the tasks without
\* scheduled_start stand together at the head of the list.
C31_TasksOrdered ==
    (last.op = "get_case" /\ last.log = "returned")
    => \A i, j \in 1..Len(last.ret.tasks) :
          i < j => InOrder(last.ret.tasks[i], last.ret.tasks[j])

\* A case was read back with a task without start first, then the task that
\* starts earlier although its id is the greater one.
C31_Witness ==
    /\ last.op = "get_case"
    /\ last.log = "returned"
    /\ Len(last.ret.tasks) = 3
    /\ last.ret.tasks[1].scheduled_start = None
    /\ last.ret.tasks[1].id[2] = "X2"
    /\ last.ret.tasks[2].scheduled_start = Dt(Step, FALSE)
    /\ last.ret.tasks[2].id[2] = "X3"
    /\ last.ret.tasks[3].scheduled_start = Dt(2 * Step, FALSE)
    /\ last.ret.tasks[3].id[2] = "X1"

\* C32: in every stored state the status of a case agrees with the statuses
\* of its tasks: a case in progress has a task in progress, and every timed
\* task of a completed case is done.
C32_StatusesAgree ==
    \A id \in DOMAIN db.surgery_cases :
        /\ db.surgery_cases[id].status = "in_progress"
              => \E t \in RowsOf(db, id) : t.status = "in_progress"
        /\ db.surgery_cases[id].status = "completed"
              => \A t \in TimedRowsOf(db, id) : t.status = "done"

\* Every task stored for the case has a room.
HoldsRoom(d, id) == RowsOf(d, id) # {} /\ \A t \in RowsOf(d, id) : HasRoom(t)

\* The rooms without a conflicting task for the envelope of the case.
FreeFor(d, id) == {r \in RoomSet : ~BusyIn(d, r, EnvStart(d, id), EnvEnd(d, id))}

RoomRank(r) == CHOOSE i \in 1..Len(RoomOrder) : RoomOrder[i] = r

\* schedule_case is called on a stored case that holds a room and whose
\* envelope has positive length.
Reschedules ==
    /\ last'.op = "schedule_case"
    /\ last'.arg \in DOMAIN db.surgery_cases
    /\ HoldsRoom(db, last'.arg)
    /\ TimedRowsOf(db, last'.arg) # {}
    /\ EnvStart(db, last'.arg) < EnvEnd(db, last'.arg)

CasesIn(r) == {id \in DOMAIN db.surgery_cases :
                  /\ TimedRowsOf(db, id) # {}
                  /\ \A t \in RowsOf(db, id) :
                        t.or_room_id = r /\ RowTimed(t) /\ StartOf(t) < EndOf(t)}

\* C34: the envelopes [min start, max end] of two different cases assigned
\* the same room do not overlap (stated for the cases whose tasks all start
\* before they end).
C34_EnvelopesDisjoint ==
    \A r \in RoomSet : \A a, b \in CasesIn(r) :
        a # b => ~( /\ EnvStart(db, a) < EnvEnd(db, b)
                    /\ EnvEnd(db, a) > EnvStart(db, b) )

\* The order planned, in_progress, completed.
StatusRank(status) ==
    IF status = "planned" THEN 1 ELSE IF status = "in_progress" THEN 2 ELSE 3

\* C35: while the clock does not go back and a case is only read, the status
\* a read stores and returns for it is never behind the status it had: not
\* planned after in_progress, and completed once completed.
C35_StatusMovesForward ==
    [][ last'.op \in {"get_case", "list_cases"} =>
          \A id \in DOMAIN db.surgery_cases \cap DOMAIN db'.surgery_cases :
              StatusRank(db.surgery_cases[id].status)
                 <= StatusRank(db'.surgery_cases[id].status) ]_vars

\* C36: a stored task that has a room keeps a room and its window through
\* every step that is not the deletion of its case, keeps the same room
\* through every step that is not a scheduling of its case, and, whatever its
\* status and the time, a room that holds a task whose window overlaps the
\* requested one is not the room find_available_or returns.
C36_ReservationHeld ==
    [][ /\ \A t \in db.surgery_tasks :
              (HasRoom(t) /\ ~(last'.op = "delete_case" /\ last'.arg = t.case_id)) =>
                 \E u \in db'.surgery_tasks :
                    /\ u.id = t.id
                    /\ u.case_id = t.case_id
                    /\ HasRoom(u)
                    /\ u.scheduled_start = t.scheduled_start
                    /\ u.scheduled_end = t.scheduled_end
                    /\ (u.or_room_id # t.or_room_id =>
                            (last'.op = "schedule_case" /\ last'.arg = t.case_id))
        /\ last'.op = "find_available_or" =>
              \A t \in db'.surgery_tasks :
                 ( /\ HasRoom(t)
                   /\ RowTimed(t)
                   /\ StartOf(t) < last'.arg[2]
                   /\ EndOf(t) > last'.arg[1] ) => last'.ret # t.or_room_id ]_vars

\* A room was asked for over a window that overlaps a task that is done, of a
\* case that is completed, in the first room; another room was returned.
C36_Witness ==
    /\ Found
    /\ last.ret \in RoomSet \ {RoomOrder[1]}
    /\ \E t \in TaskRows :
          /\ t.or_room_id = RoomOrder[1]
          /\ t.status = "done"
          /\ db.surgery_cases[t.case_id].status = "completed"
          /\ StartOf(t) < last.arg[2]
          /\ EndOf(t) > last.arg[1]

\* The windows a room is asked for.
AskedWindows == {w \in Clock \X Clock : w[1] <= w[2]}

\* Room r is taken over window w in database d, and only by tasks of case id.
TakenOnlyBy(d, id, r, w) ==
    /\ BusyIn(d, r, w[1], w[2])
    /\ ~BusyIn([d EXCEPT !.surgery_tasks = {t \in @ : t.case_id # id}], r, w[1], w[2])

\* C37: when delete_case removes a case, every window that a room refused
\* only because of that case's tasks is afterwards given that room or one
\* declared before it, and the tasks of the other cases are left with the
\* rooms they had.
C37_DeleteReleases ==
    [][ last'.op = "delete_case" =>
          /\ \A w \in AskedWindows, r \in RoomSet :
                TakenOnlyBy(db, last'.arg, r, w) =>
                   /\ find_available_or(db', Dt(w[1], FALSE), Dt(w[2], FALSE)) \in RoomSet
                   /\ RoomRank(find_available_or(db', Dt(w[1], FALSE), Dt(w[2], FALSE)))
                         <= RoomRank(r)
          /\ Reservations({t \in db'.surgery_tasks : t.case_id # last'.arg})
                = Reservations({t \in db.surgery_tasks : t.case_id # last'.arg}) ]_vars

\* The case that held the first room was deleted while another case holds the
\* second room; the first room holds nothing.
C37_Witness ==
    /\ last.op = "delete_case"
    /\ last.log = RoomOrder[1]
    /\ \E t \in TaskRows : t.or_room_id = RoomOrder[2]
    /\ \A t \in TaskRows : t.or_room_id # RoomOrder[1]

\* What the reads and the scheduling leave alone in a case row and a task row.
CaseFrame(d) ==
    [id \in DOMAIN d.surgery_cases |->
        <<d.surgery_cases[id].patient_name, d.surgery_cases[id].procedure_name,
          d.surgery_cases[id].priority, d.surgery_cases[id].requested_datetime,
          d.surgery_cases[id].created_at>>]
TaskFrame(d) ==
    {<<t.id, t.case_id, t.name, t.scheduled_start, t.scheduled_end>> : t \in d.surgery_tasks}

\* C38: get_case, list_cases and schedule_case leave the set of stored cases
\* and, of each, patient, procedure, priority, requested time and created_at as
\* they were, leave the set of stored tasks and, of each, id, case id, name,
\* start and end as they were, and schedule_case leaves the room of every
\* task of another case as it was.
C38_Frame ==
    [][ last'.op \in {"get_case", "list_cases", "schedule_case"} =>
          /\ CaseFrame(db') = CaseFrame(db)
          /\ TaskFrame(db') = TaskFrame(db)
          /\ Cardinality(db'.surgery_tasks) = Cardinality(db.surgery_tasks)
          /\ last'.op = "schedule_case" =>
                Reservations({t \in db'.surgery_tasks : t.case_id # last'.arg})
                   = Reservations({t \in db.surgery_tasks : t.case_id # last'.arg}) ]_vars

\* schedule_case gave a case a room while another case holds a room too and
\* a read has moved another case out of the planned status.
C38_Witness ==
    /\ Scheduled
    /\ \E t \in TaskRows : t.case_id # last.arg /\ HasRoom(t)
    /\ \E id \in DOMAIN db.surgery_cases :
          id # last.arg /\ db.surgery_cases[id].status # "planned"

\* The messages of the list that GET /api/notifications returns.
ServedMessages ==
    {notifier_list_notifications(notifier)[i].message :
        i \in 1..Len(notifier_list_notifications(notifier))}

\* C39: the message of every notification that has been recorded, by the
\* notifier or in the notifications table, is in the list that the
\* notification endpoint returns.
C39_RecordedIsServed ==
    /\ \A i \in 1..Len(notifier) : notifier[i].message \in ServedMessages
    /\ \A i \in 1..Len(notifications) : notifications[i].message \in ServedMessages

\* A message that no agent implements: its receiver has no registered agent,
\* or it is for the planner and is not REQUEST/NEW_CASE, or for the executor
\* and is not REQUEST/SCHEDULE_CASE or has no case id, or for the notifier and
\* is not INFORM.
NotImplemented(message) ==
    \/ message.receiver \in {"ui", "knowledge_base"}
    \/ /\ message.receiver = "planner"
       /\ ~(message.performative = "REQUEST" /\ message.content.type = "NEW_CASE")
    \/ /\ message.receiver = "executor"
       /\ \/ ~(message.performative = "REQUEST" /\ message.content.type = "SCHEDULE_CASE")
          \/ message.content.case_id = ""
    \/ /\ message.receiver = "notifier"
       /\ message.performative # "INFORM"

\* C40: sending a message that no agent implements returns none without
\* raising and leaves the stored cases and tasks, their rooms, the notifier's
\* list and the notifications table as they were.
C40_UnhandledChangesNothing ==
    [][ (last'.op = "send" /\ NotImplemented(last'.arg)) =>
          /\ last'.log = "none"
          /\ db' = db
          /\ notifier' = notifier
          /\ notifications' = notifications ]_vars

\* A SCHEDULE_CASE request without a case id was sent to the executor, after
\* the clock has advanced, while a case holds a room and the notifier has
\* recorded a notification.
C40_Witness ==
    /\ last.op = "send"
    /\ last.arg.receiver = "executor"
    /\ last.arg.performative = "REQUEST"
    /\ last.arg.content.type = "SCHEDULE_CASE"
    /\ last.arg.content.case_id = ""
    /\ last.log = "none"
    /\ \E t \in TaskRows : HasRoom(t)
    /\ Len(notifier) > 0
    /\ clock > 0

====
